---- MODULE Spec2Model ----
(***************************************************************************)
(* Model of vyper/high-five: the kudos modal update path,                 *)
(*   internal/handlers/block_actions.go   HandleBlockActions               *)
(*   internal/services/modal.go           UpdateModal                      *)
(*   internal/models/kudos_types.go       the two catalogs                 *)
(* and, further down, the submission handler, the two HTTP entry points,   *)
(* ParseKudoTypeText, the weekly reminder and a modal session.             *)
(*                                                                         *)
(* A JSON value is modelled structurally.  A block of the template is a    *)
(* record with the keys UpdateModal reads or writes:                       *)
(*   isMap          the array entry is a JSON object                       *)
(*   block_id       its "block_id" (Absent when the key is missing)        *)
(*   type           its "type"                                             *)
(*   hasElement     its "element" is a JSON object                         *)
(*   initial_value  element["initial_value"] (Absent when missing)         *)
(*   text           elements[0]["text"] of a context block                 *)
(* Keys never touched by the code (labels, placeholders, options) are      *)
(* determined by block_id and type and are left out.  Indices are 0-based  *)
(* as in the Go code, so block i of a list is blocks[i + 1] here.          *)
(* TLA+ strings are ASCII: the lightbulb glyph is written ":bulb:" and     *)
(* accented letters are written without their accent.                      *)
(***************************************************************************)
EXTENDS Integers, Sequences, FiniteSets, TLC

\* ------------------------------------------------------------------ bounds
MaxBlocks == 2          \* longest template block list
MaxActions == 2         \* longest action list of a block_actions payload
MaxLabel == 4           \* longest display label, in words and spaces
MaxPages == 3           \* most member pages requested in one reminder run

\* --------------------------------------------------------------- constants
StatusOK == 200
StatusBadRequest == 400
StatusUnauthorized == 401
StatusInternalServerError == 500
NotFound == 0 - 1       \* the -1 that initialises both indices

Absent == "<absent>"    \* a JSON key that is not present
NoStatus == 0           \* no response written yet

\* Response bodies: nothing, the text of http.Error, or the JSON object of
\* a validation failure (its errors member maps field names to messages).
EmptyBody == [ kind |-> "empty" ]

TextBody(text) == [ kind |-> "text", text |-> text ]

ErrorsBody(errors) ==
    [ kind |-> "json", response_action |-> "errors", errors |-> errors ]

\* ---------------------------------------------------------------- catalogs
KudoSuggestedMessages ==
    [ s \in { "entrega-excepcional", "espirito-de-equipe", "ideia-brilhante",
              "acima-e-alem", "mestre-em-ensinar", "resolvedor-de-problemas",
              "atitude-positiva", "crescimento-continuo", "conquista-do-time",
              "resiliencia" } |->
        CASE s = "entrega-excepcional" -> "Sua dedicacao e capricho na entrega fizeram toda a diferenca!"
          [] s = "espirito-de-equipe" -> "Obrigado por estar sempre a disposicao para ajudar o time!"
          [] s = "ideia-brilhante" -> "Sua ideia trouxe uma perspectiva nova e valiosa para o problema!"
          [] s = "acima-e-alem" -> "Voce foi alem das expectativas e isso nao passou despercebido!"
          [] s = "mestre-em-ensinar" -> "Obrigado por compartilhar seu conhecimento e ajudar o time a crescer!"
          [] s = "resolvedor-de-problemas" -> "Sua habilidade de resolver problemas salvou o dia!"
          [] s = "atitude-positiva" -> "Sua energia positiva contagia e motiva todo o time!"
          [] s = "crescimento-continuo" -> "Inspirador ver sua dedicacao em sempre aprender e evoluir!"
          [] s = "conquista-do-time" -> "Parabens pela conquista! Sucesso de todos nos!"
          [] s = "resiliencia" -> "Sua persistencia diante dos desafios e admiravel!" ]

KudoDescriptions ==
    [ s \in { "entrega-excepcional", "espirito-de-equipe", "ideia-brilhante",
              "acima-e-alem", "mestre-em-ensinar", "resolvedor-de-problemas",
              "atitude-positiva", "crescimento-continuo", "conquista-do-time",
              "resiliencia" } |->
        CASE s = "entrega-excepcional" -> "Reconhecer entregas de alta qualidade, no prazo ou superando expectativas"
          [] s = "espirito-de-equipe" -> "Colaboracao, ajudar colegas, trabalho em conjunto"
          [] s = "ideia-brilhante" -> "Inovacao, criatividade, solucoes inteligentes"
          [] s = "acima-e-alem" -> "Ir alem do esperado, esforco extra"
          [] s = "mestre-em-ensinar" -> "Compartilhar conhecimento, mentorar, ensinar"
          [] s = "resolvedor-de-problemas" -> "Resolver problemas complexos, troubleshooting"
          [] s = "atitude-positiva" -> "Manter o moral alto, positividade, energia boa"
          [] s = "crescimento-continuo" -> "Aprendizado, desenvolvimento pessoal, adaptabilidade"
          [] s = "conquista-do-time" -> "Vitorias coletivas, marcos alcancados"
          [] s = "resiliencia" -> "Superar desafios, persistencia, lidar com adversidades" ]

\* ------------------------------------------------------------ input domains
\* Selected option values a payload may carry: a catalog slug, a slug that
\* is in neither catalog, the "custom" sentinel.
SelectedValues == { "resolvedor-de-problemas", "slug-desconhecido", "custom" }

\* Values of the kudo_message field in the payload state.
MessageValues == { "", "Mensagem existente" }

\* (view.id, view.hash) pairs of the payload.
ViewRefs == { <<"V123456", "hash123">>, <<"V123", "hash456">> }

Block(id, type, hasElement, iv, text) ==
    [ isMap |-> TRUE, block_id |-> id, type |-> type,
      hasElement |-> hasElement, initial_value |-> iv, text |-> text ]

\* An entry of the block list that is not a JSON object.
NotAMapBlock ==
    [ isMap |-> FALSE, block_id |-> Absent, type |-> Absent,
      hasElement |-> FALSE, initial_value |-> Absent, text |-> Absent ]

\* The block shapes templates are built from (those of the embedded modal
\* and of the templates in modal_test.go).
TemplateBlocks ==
    { NotAMapBlock,
      Block("kudo_users", "input", TRUE, Absent, Absent),
      Block("kudo_type", "input", TRUE, Absent, Absent),
      Block("kudo_description", "context", FALSE, Absent, "old description"),
      Block("kudo_description", "input", TRUE, "My Custom Type", Absent),
      Block("kudo_message", "input", TRUE, Absent, Absent),
      Block("kudo_message", "input", FALSE, Absent, Absent) }

RECURSIVE SeqsUpTo(_, _)
SeqsUpTo(S, n) ==
    IF n = 0 THEN { <<>> }
    ELSE LET shorter == SeqsUpTo(S, n - 1)
         IN  shorter \cup { Append(q, x) : q \in shorter, x \in S }

\* Block lists taken from the source: the modal as first written inline
\* (users, type, message) and the three-block templates of modal_test.go.
SourceBlockLists ==
    { << Block("kudo_users", "input", TRUE, Absent, Absent),
         Block("kudo_type", "input", TRUE, Absent, Absent),
         Block("kudo_message", "input", TRUE, Absent, Absent) >>,
      << Block("kudo_type", "input", TRUE, Absent, Absent),
         Block("kudo_description", "context", FALSE, Absent, "old description"),
         Block("kudo_message", "input", TRUE, Absent, Absent) >>,
      << Block("kudo_type", "input", TRUE, Absent, Absent),
         Block("kudo_description", "input", TRUE, "My Custom Type", Absent),
         Block("kudo_message", "input", TRUE, Absent, Absent) >> }

\* A view template: its parse outcome and, when it parses into a view with
\* a block list, that list.  Every block list of up to MaxBlocks entries is
\* tried, and the lists of the source.
Templates ==
    { [ shape |-> "ok", blocks |-> b ] :
        b \in SeqsUpTo(TemplateBlocks, MaxBlocks) \cup SourceBlockLists }
      \cup { [ shape |-> s, blocks |-> <<>> ] :
               s \in { "bad_json", "no_view", "bad_blocks" } }


\* ------------------------------------------------------------------- state
\* The handlers keep nothing between requests: the state is the embedded
\* template and what the last interaction did.
VARIABLES
    template,   \* the view template string handed to every update
    calls,      \* arguments of the UpdateModal calls of the last interaction
    sent,       \* bodies of the views.update requests it issued
    response,   \* outcome of its remote call ("none" when there was none)
    status,     \* HTTP status written for it
    written,    \* response body written for it
    repeated,   \* history: the last interaction called UpdateModal with
                \* the arguments of the interaction before it
    payload,    \* history: the request or callback of the last interaction
    invited,    \* conversations.invite calls of the last interaction
    posted,     \* chat.postMessage calls of the last interaction
    opened,     \* views.open requests of the last interaction
    trace,      \* what the entry point ran for it, in order
    pc,         \* concurrent UpdateModal invocations: where each one is
    locals,     \*   its arguments and local variables
    trees,      \*   the parsed trees on the heap
    wire,       \*   the request bodies that left, per invocation
    label,      \* a display label handed to ParseKudoTypeText
    labelParts, \* what ParseKudoTypeText returned for it
    rpc,        \* the reminder run: where handleReminder is
    cursor,     \*   the cursor of the next members request
    requests,   \*   the cursors of the members requests made
    pages,      \*   the pages those requests returned
    allMembers, \*   the members collected
    dms,        \*   the direct messages attempted and their outcomes
    result,     \*   what handleReminder returned
    field       \* a modal session: the kudo_message field as displayed

modalVars == << template, calls, sent, response, status, written, repeated >>
submissionVars == << invited, posted >>
entryVars == << payload, opened, trace >>
concurrentVars == << pc, locals, trees, wire >>
parseVars == << label, labelParts >>
reminderVars == << rpc, cursor, requests, pages, allMembers, dms, result >>
sessionVars == << field >>

\* The variables of the label parser, the reminder run and the modal
\* session, which the request handlers never touch.
otherVars == << parseVars, reminderVars, sessionVars >>

vars == << modalVars, submissionVars, entryVars, concurrentVars, otherVars >>

\* The parts of the state a specification does not exercise stay as
\* they are after construction.
NoPayload == [ kind |-> "none" ]

SubmissionIdle == invited = <<>> /\ posted = <<>>

EntryIdle == payload = NoPayload /\ opened = <<>> /\ trace = <<>>

ConcurrentIdle == pc = <<>> /\ locals = <<>> /\ trees = <<>> /\ wire = <<>>

\* No label parsed yet.
NoParts == [ done |-> FALSE, emoji |-> "", text |-> "" ]

ParseIdle == label = <<>> /\ labelParts = NoParts

ReminderIdle ==
    /\ rpc = "idle"
    /\ cursor = ""
    /\ requests = <<>>
    /\ pages = <<>>
    /\ allMembers = <<>>
    /\ dms = <<>>
    /\ result = "none"

SessionIdle == field = ""

\* --------------------------------------------------- services.UpdateModal
\* Faulty variant of TemplateError: the type of blocks not tested.
TemplateErrorBlocksUntested(tpl) ==
    CASE tpl.shape = "bad_json" -> "error parsing view template"
      [] tpl.shape = "no_view" -> "invalid view structure in template"
      [] OTHER -> ""

\* modal.go:54-67  the three structural errors, in the order they are tested.
TemplateError(tpl) ==
    CASE tpl.shape = "bad_json" -> "error parsing view template"
      [] tpl.shape = "no_view" -> "invalid view structure in template"
      [] tpl.shape = "bad_blocks" -> "invalid blocks structure in template"
      [] OTHER -> ""

\* Faulty variant of the guard below: the test on messageValue inverted.
SetsInitialValueWhenEmpty(elementOk, messageValue) ==
    elementOk /\ messageValue = ""

\* modal.go:88  the guard of the initial_value assignment.
SetsInitialValue(elementOk, messageValue) ==
    elementOk /\ messageValue # ""

\* modal.go:72-92  one pass over the block list: the last kudo_type index,
\* the last kudo_description index, and initial_value written into every
\* kudo_message block whose element is an object.
RECURSIVE ScanBlocks(_, _, _, _)
ScanBlocks(blocks, messageValue, i, acc) ==
    IF i >= Len(blocks) THEN acc
    ELSE
      LET block == blocks[i + 1] IN
      IF ~block.isMap THEN ScanBlocks(blocks, messageValue, i + 1, acc)
      ELSE
        LET a1 == IF block.block_id = "kudo_type"
                  THEN [acc EXCEPT !.kudoTypeIndex = i] ELSE acc
            a2 == IF block.block_id = "kudo_description"
                  THEN [a1 EXCEPT !.descriptionBlockIndex = i] ELSE a1
            a3 == IF /\ block.block_id = "kudo_message"
                     /\ SetsInitialValue(block.hasElement, messageValue)
                  THEN [a2 EXCEPT !.blocks[i + 1].initial_value = messageValue]
                  ELSE a2
        IN  ScanBlocks(blocks, messageValue, i + 1, a3)

\* Faulty variant of ExistingValue: the test on messageValue dropped.
ExistingValueAnyMessage(blocks, descriptionBlockIndex, messageValue) ==
    IF descriptionBlockIndex # NotFound
    THEN LET existingBlock == blocks[descriptionBlockIndex + 1] IN
         IF /\ existingBlock.hasElement
            /\ existingBlock.initial_value # Absent
            /\ existingBlock.initial_value # ""
         THEN existingBlock.initial_value
         ELSE Absent
    ELSE Absent

\* modal.go:118-133  the custom name carried into the new input block.
ExistingValue(blocks, descriptionBlockIndex, messageValue) ==
    IF messageValue # ""
    THEN IF descriptionBlockIndex # NotFound
         THEN LET existingBlock == blocks[descriptionBlockIndex + 1] IN
              IF /\ existingBlock.hasElement
                 /\ existingBlock.initial_value # Absent
                 /\ existingBlock.initial_value # ""
              THEN existingBlock.initial_value
              ELSE Absent
         ELSE Absent
    ELSE Absent

\* Faulty variant of Description: the fallback dropped.
DescriptionNoFallback(selectedKudoType) ==
    IF selectedKudoType \in DOMAIN KudoDescriptions
    THEN KudoDescriptions[selectedKudoType]
    ELSE ""

\* modal.go:136-139  catalog lookup with the fixed fallback.
Description(selectedKudoType) ==
    LET description == IF selectedKudoType \in DOMAIN KudoDescriptions
                       THEN KudoDescriptions[selectedKudoType]
                       ELSE ""
    IN  IF description = "" THEN "Tipo de elogio selecionado" ELSE description

\* Faulty variant of DescriptionBlock: the "custom" branch dropped.
ContextForEveryType(selectedKudoType, blocks, descriptionBlockIndex, messageValue) ==
    Block("kudo_description", "context", FALSE, Absent,
          ":bulb: _" \o Description(selectedKudoType) \o "_")

\* modal.go:94-151  the replacement description block.
DescriptionBlock(selectedKudoType, blocks, descriptionBlockIndex, messageValue) ==
    IF selectedKudoType = "custom"
    THEN Block("kudo_description", "input", TRUE,
               ExistingValue(blocks, descriptionBlockIndex, messageValue),
               Absent)
    ELSE Block("kudo_description", "context", FALSE, Absent,
               ":bulb: _" \o Description(selectedKudoType) \o "_")

\* Faulty variant of InsertPosition: off by one.
InsertBeforeKudoType(kudoTypeIndex) == kudoTypeIndex

\* modal.go:154  where a new description block goes.
InsertPosition(kudoTypeIndex) == kudoTypeIndex + 1

\* Faulty variants of Splice: one inserts even when a description block
\* exists, one overwrites the first block instead of the description block,
\* one inserts without testing that kudo_type was found.
SpliceAlwaysInsert(blocks, kudoTypeIndex, descriptionBlockIndex, descriptionBlock) ==
    IF kudoTypeIndex # NotFound
    THEN LET insertPosition == InsertPosition(kudoTypeIndex) IN
         SubSeq(blocks, 1, insertPosition)
           \o << descriptionBlock >>
           \o SubSeq(blocks, insertPosition + 1, Len(blocks))
    ELSE IF descriptionBlockIndex # NotFound
         THEN [blocks EXCEPT ![descriptionBlockIndex + 1] = descriptionBlock]
         ELSE blocks

SpliceReplaceFirst(blocks, kudoTypeIndex, descriptionBlockIndex, descriptionBlock) ==
    IF descriptionBlockIndex = NotFound /\ kudoTypeIndex # NotFound
    THEN LET insertPosition == InsertPosition(kudoTypeIndex) IN
         SubSeq(blocks, 1, insertPosition)
           \o << descriptionBlock >>
           \o SubSeq(blocks, insertPosition + 1, Len(blocks))
    ELSE IF descriptionBlockIndex # NotFound
         THEN [blocks EXCEPT ![1] = descriptionBlock]
         ELSE blocks

SpliceUnguarded(blocks, kudoTypeIndex, descriptionBlockIndex, descriptionBlock) ==
    IF descriptionBlockIndex = NotFound
    THEN LET insertPosition == InsertPosition(kudoTypeIndex) IN
         SubSeq(blocks, 1, insertPosition)
           \o << descriptionBlock >>
           \o SubSeq(blocks, insertPosition + 1, Len(blocks))
    ELSE [blocks EXCEPT ![descriptionBlockIndex + 1] = descriptionBlock]

\* modal.go:153-162  insert after kudo_type, or overwrite in place, or leave
\* the list alone when neither index was found.
Splice(blocks, kudoTypeIndex, descriptionBlockIndex, descriptionBlock) ==
    IF descriptionBlockIndex = NotFound /\ kudoTypeIndex # NotFound
    THEN LET insertPosition == InsertPosition(kudoTypeIndex) IN
         SubSeq(blocks, 1, insertPosition)
           \o << descriptionBlock >>
           \o SubSeq(blocks, insertPosition + 1, Len(blocks))
    ELSE IF descriptionBlockIndex # NotFound
         THEN [blocks EXCEPT ![descriptionBlockIndex + 1] = descriptionBlock]
         ELSE blocks

\* modal.go:164-173  the update envelope.  json.Marshal writes object keys
\* in sorted order, so equal trees give equal bytes.
UpdateRequest(viewID, hash, blocks) ==
    [ view_id |-> viewID, hash |-> hash, blocks |-> blocks ]

\* modal.go:53-173  everything UpdateModal does before the request leaves:
\* err is the structural error ("" for none) and body the request body.
BuildUpdate(viewID, hash, selectedKudoType, messageValue, tpl) ==
    IF TemplateError(tpl) # ""
    THEN [ err |-> TemplateError(tpl), body |-> UpdateRequest(viewID, hash, <<>>) ]
    ELSE
      LET scan == ScanBlocks(tpl.blocks, messageValue, 0,
                             [ kudoTypeIndex |-> NotFound,
                               descriptionBlockIndex |-> NotFound,
                               blocks |-> tpl.blocks ])
          descriptionBlock ==
              DescriptionBlock(selectedKudoType, scan.blocks,
                               scan.descriptionBlockIndex, messageValue)
      IN  [ err |-> "",
            body |-> UpdateRequest(viewID, hash,
                        Splice(scan.blocks, scan.kudoTypeIndex,
                               scan.descriptionBlockIndex, descriptionBlock)) ]

\* modal.go:183-207  what the remote outcome makes UpdateModal return.
RemoteOutcomes == { "ok", "not_ok", "network_error" }

RemoteError(outcome) ==
    CASE outcome = "network_error" -> "error making views.update request"
      [] outcome = "not_ok" -> "slack API error"
      [] OTHER -> ""

\* Faulty variant of TemplateAfterUpdate: the parsed tree kept and edited
\* in place.
TemplateSharedTree(tpl, body) ==
    IF tpl.shape = "ok" THEN [ tpl EXCEPT !.blocks = body.blocks ] ELSE tpl

\* modal.go:54-57  json.Unmarshal builds a fresh tree from the immutable
\* template string on every call, so the template outlives the call as is.
TemplateAfterUpdate(tpl, body) == tpl


\* ------------------------------------------- handlers.HandleBlockActions
\* The payload fields the handler reads: view.id, view.hash, the action
\* list, and view.state.  state.kind tells how much of
\* view.state.values["kudo_message"]["kudo_message"] is there.
Actions ==
    { [ action_id |-> "kudo_type", value |-> v ] : v \in SelectedValues \cup { "" } }
      \cup { [ action_id |-> "kudo_users", value |-> "" ] }

ViewStates ==
    { [ kind |-> k, value |-> "" ] : k \in { "nil", "no_block", "no_action" } }
      \cup { [ kind |-> "value", value |-> m ] : m \in MessageValues }

\* Action lists of a payload: none, or one changed action.
ActionLists == { <<>> } \cup { << a >> : a \in Actions }

Callbacks ==
    { [ viewID |-> v[1], hash |-> v[2], actions |-> a, state |-> st ] :
        v \in ViewRefs, a \in ActionLists, st \in ViewStates }

\* Faulty variants of FirstMatch: one keeps looping after a match, so the
\* last matching action wins; one does not test the selected value.
RECURSIVE LastMatch(_, _)
LastMatch(actions, i) ==
    IF i > Len(actions) THEN 0
    ELSE LET later == LastMatch(actions, i + 1) IN
         IF later # 0 THEN later
         ELSE IF actions[i].action_id = "kudo_type" /\ actions[i].value # ""
              THEN i
              ELSE 0

RECURSIVE FirstKudoType(_, _)
FirstKudoType(actions, i) ==
    IF i > Len(actions) THEN 0
    ELSE IF actions[i].action_id = "kudo_type"
         THEN i
         ELSE FirstKudoType(actions, i + 1)

\* block_actions.go:16-17  index of the first action the loop acts on
\* (0 when the loop runs to its end).
RECURSIVE FirstMatch(_, _)
FirstMatch(actions, i) ==
    IF i > Len(actions) THEN 0
    ELSE IF actions[i].action_id = "kudo_type" /\ actions[i].value # ""
         THEN i
         ELSE FirstMatch(actions, i + 1)

\* block_actions.go:19-26
CurrentMessage(callback) ==
    IF callback.state.kind = "value" THEN callback.state.value ELSE ""

\* Faulty variant of SuggestedMessage: the user's text overwritten.
SuggestAlways(selected, currentMessage) ==
    IF selected = "custom"
    THEN currentMessage
    ELSE IF selected \in DOMAIN KudoSuggestedMessages
         THEN KudoSuggestedMessages[selected]
         ELSE currentMessage

\* block_actions.go:30-42
SuggestedMessage(selected, currentMessage) ==
    IF selected = "custom"
    THEN currentMessage
    ELSE IF currentMessage = ""
         THEN IF selected \in DOMAIN KudoSuggestedMessages
              THEN KudoSuggestedMessages[selected]
              ELSE ""
         ELSE currentMessage

\* block_actions.go:14-67  one interaction, from the scan of the action list
\* to the status written.  The remote outcome is chosen when the request
\* is issued (modal.go:183).
HandleBlockActions(callback) ==
    LET i == FirstMatch(callback.actions, 1) IN
    IF i = 0
    THEN /\ status' = StatusOK
         /\ written' = EmptyBody
         /\ response' = "none"
         /\ calls' = <<>>
         /\ sent' = <<>>
         /\ repeated' = FALSE
         /\ UNCHANGED template
    ELSE
      LET selected == callback.actions[i].value
          currentMessage == CurrentMessage(callback)
          suggestedMessage == SuggestedMessage(selected, currentMessage)
          update == BuildUpdate(callback.viewID, callback.hash, selected,
                                suggestedMessage, template)
      IN  /\ calls' = << [ viewID |-> callback.viewID, hash |-> callback.hash,
                           selectedKudoType |-> selected,
                           currentMessage |-> currentMessage,
                           messageValue |-> suggestedMessage ] >>
          /\ repeated' = (calls = calls')
          /\ template' = TemplateAfterUpdate(template, update.body)
          /\ IF update.err # ""
             THEN /\ sent' = <<>>
                  /\ response' = "none"
                  /\ status' = StatusInternalServerError
                  /\ written' = TextBody("Error updating modal")
             ELSE \E outcome \in RemoteOutcomes :
                  /\ sent' = << update.body >>
                  /\ response' = outcome
                  /\ status' = IF RemoteError(outcome) # ""
                               THEN StatusInternalServerError
                               ELSE StatusOK
                  /\ written' = IF RemoteError(outcome) # ""
                                THEN TextBody("Error updating modal")
                                ELSE EmptyBody

\* ----------------------------------------------------------- specification
Init ==
    /\ template \in Templates
    /\ calls = <<>>
    /\ sent = <<>>
    /\ response = "none"
    /\ status = NoStatus
    /\ written = EmptyBody
    /\ repeated = FALSE
    /\ SubmissionIdle
    /\ EntryIdle
    /\ ConcurrentIdle
    /\ ParseIdle
    /\ ReminderIdle
    /\ SessionIdle

Next ==
    /\ \E callback \in Callbacks : HandleBlockActions(callback)
    /\ UNCHANGED << submissionVars, entryVars, concurrentVars, otherVars >>

Spec == Init /\ [][Next]_vars

TypeOK ==
    /\ template \in Templates
    /\ Len(calls) <= 1
    /\ Len(sent) <= Len(calls)
    /\ status \in { NoStatus, StatusOK, StatusInternalServerError }


\* ------------------------------------------------------ reading the state
Called == Len(calls) = 1
Sent == Len(sent) = 1
TemplateOK == template.shape = "ok"

IsBlock(b, id) == b.isMap /\ b.block_id = id

IndicesOf(blocks, id) == { k \in 1..Len(blocks) : IsBlock(blocks[k], id) }

HasBlock(blocks, id) == IndicesOf(blocks, id) # {}

LastOf(blocks, id) ==
    CHOOSE k \in IndicesOf(blocks, id) : \A j \in IndicesOf(blocks, id) : j <= k

\* The same block, up to the pre-fill of a kudo_message element.
SameBlock(b, t) ==
    /\ b.isMap = t.isMap
    /\ b.block_id = t.block_id
    /\ b.type = t.type
    /\ b.hasElement = t.hasElement
    /\ b.text = t.text
    /\ (~IsBlock(t, "kudo_message") => b.initial_value = t.initial_value)

Predefined(selected) == selected # "custom"

\* -------------------------------------------------------------------- C1
\* C1: for a template with a kudo_type block and no kudo_description block,
\* the body sent has one block more than the template; the added block is
\* the kudo_description block and sits right after kudo_type; the blocks
\* before it are the template's in order, the blocks after it are the
\* template's shifted right by one.
C1_InsertAfterKudoType ==
    ( /\ Sent
      /\ TemplateOK
      /\ HasBlock(template.blocks, "kudo_type")
      /\ ~HasBlock(template.blocks, "kudo_description") )
    => LET B == sent[1].blocks
           T == template.blocks
           p == LastOf(T, "kudo_type") + 1
       IN  /\ Len(B) = Len(T) + 1
           /\ IsBlock(B[p], "kudo_description")
           /\ \A k \in 1..(p - 1) : SameBlock(B[k], T[k])
           /\ \A k \in (p + 1)..Len(B) : SameBlock(B[k], T[k - 1])

\* An insertion that shifted a block: kudo_type is not the last block.
C1_Witness ==
    /\ Sent
    /\ TemplateOK
    /\ HasBlock(template.blocks, "kudo_type")
    /\ ~HasBlock(template.blocks, "kudo_description")
    /\ LastOf(template.blocks, "kudo_type") < Len(template.blocks)
    /\ Len(sent[1].blocks) = Len(template.blocks) + 1

\* -------------------------------------------------------------------- C2
\* C2: for a template that already has a kudo_description block, the body
\* sent has as many blocks as the template; the block at the index of the
\* old description block is the description built for the selected
\* category, and every other block stays at its index.
C2_ReplaceInPlace ==
    ( /\ Sent
      /\ TemplateOK
      /\ HasBlock(template.blocks, "kudo_description") )
    => LET B == sent[1].blocks
           T == template.blocks
           d == LastOf(T, "kudo_description")
           selected == calls[1].selectedKudoType
       IN  /\ Len(B) = Len(T)
           /\ IsBlock(B[d], "kudo_description")
           /\ B[d].type = IF Predefined(selected) THEN "context" ELSE "input"
           /\ B[d].text \in
                IF Predefined(selected)
                THEN { ":bulb: _Resolver problemas complexos, troubleshooting_",
                       ":bulb: _Tipo de elogio selecionado_" }
                ELSE { Absent }
           /\ \A k \in 1..Len(B) : k # d => SameBlock(B[k], T[k])

\* A context description overwritten by the input block of "custom", with
\* blocks on both sides of it.
C2_Witness ==
    /\ Sent
    /\ TemplateOK
    /\ Len(template.blocks) = 3
    /\ IsBlock(template.blocks[2], "kudo_description")
    /\ template.blocks[2].type = "context"
    /\ calls[1].selectedKudoType = "custom"
    /\ sent[1].blocks[2].type = "input"

\* -------------------------------------------------------------------- C3
\* C3: whatever category is selected, a non-empty message value is the
\* initial_value of the kudo_message field (the block's element) in the
\* body sent.
C3_MessagePreserved ==
    ( /\ Sent
      /\ calls[1].messageValue # "" )
    => \A k \in 1..Len(sent[1].blocks) :
         ( /\ IsBlock(sent[1].blocks[k], "kudo_message")
           /\ sent[1].blocks[k].hasElement )
         => sent[1].blocks[k].initial_value = calls[1].messageValue

\* The user's text pre-filled while an unknown slug is selected.
C3_Witness ==
    /\ Sent
    /\ calls[1].selectedKudoType = "slug-desconhecido"
    /\ calls[1].messageValue = "Mensagem existente"
    /\ \E k \in 1..Len(sent[1].blocks) :
         /\ IsBlock(sent[1].blocks[k], "kudo_message")
         /\ sent[1].blocks[k].initial_value = "Mensagem existente"


\* -------------------------------------------------------------------- C4
\* C4: the message value the handler passes to UpdateModal is the payload's
\* current message when "custom" is selected; for any other selection it is
\* the catalog's suggested message (empty when the slug has none) if the
\* current message is empty, and the current message otherwise.  So a known
\* slug with an empty current message pre-fills the kudo_message field with
\* that slug's suggested message.
C4_MessagePassed ==
    Called =>
      LET c == calls[1] IN
      /\ ( c.selectedKudoType = "custom" => c.messageValue = c.currentMessage )
      /\ ( /\ Predefined(c.selectedKudoType)
           /\ c.currentMessage # "" ) => c.messageValue = c.currentMessage
      /\ ( /\ c.selectedKudoType = "resolvedor-de-problemas"
           /\ c.currentMessage = "" )
         => /\ c.messageValue = "Sua habilidade de resolver problemas salvou o dia!"
            /\ Sent => \A k \in 1..Len(sent[1].blocks) :
                 ( /\ IsBlock(sent[1].blocks[k], "kudo_message")
                   /\ sent[1].blocks[k].hasElement )
                 => sent[1].blocks[k].initial_value =
                      "Sua habilidade de resolver problemas salvou o dia!"
      /\ ( /\ c.selectedKudoType = "slug-desconhecido"
           /\ c.currentMessage = "" ) => c.messageValue = ""

\* Scenario B of the spec: a known slug, nothing typed, the suggestion
\* pre-filled into the modal of the source (users, type, message).
C4_Witness ==
    /\ Sent
    /\ calls[1].selectedKudoType = "resolvedor-de-problemas"
    /\ calls[1].currentMessage = ""
    /\ Len(sent[1].blocks) = 4
    /\ IsBlock(sent[1].blocks[4], "kudo_message")
    /\ sent[1].blocks[4].initial_value =
         "Sua habilidade de resolver problemas salvou o dia!"

\* -------------------------------------------------------------------- C5
\* C5: with "custom" selected, the description block placed in the body is
\* an input block, never a context block, and the kudo_message field holds
\* nothing but the user's own current text: it is left as the template has
\* it when that text is empty.
C5_CustomExclusive ==
    ( /\ Sent
      /\ calls[1].selectedKudoType = "custom" )
    => LET B == sent[1].blocks
           T == template.blocks
       IN  /\ ( HasBlock(T, "kudo_type") \/ HasBlock(T, "kudo_description") )
              => /\ HasBlock(B, "kudo_description")
                 /\ B[LastOf(B, "kudo_description")].type = "input"
                 /\ B[LastOf(B, "kudo_description")].text = Absent
           /\ \A k \in 1..Len(B) :
                IsBlock(B[k], "kudo_message") =>
                  /\ B[k].initial_value \in { Absent, calls[1].currentMessage }
                  /\ calls[1].currentMessage = "" => B[k].initial_value = Absent

\* "custom" selected with nothing typed: an input block inserted, no
\* pre-fill.
C5_Witness ==
    /\ Sent
    /\ calls[1].selectedKudoType = "custom"
    /\ calls[1].currentMessage = ""
    /\ ~HasBlock(template.blocks, "kudo_description")
    /\ HasBlock(sent[1].blocks, "kudo_description")
    /\ \E k \in 1..Len(sent[1].blocks) :
         /\ IsBlock(sent[1].blocks[k], "kudo_message")
         /\ sent[1].blocks[k].hasElement
         /\ sent[1].blocks[k].initial_value = Absent

\* -------------------------------------------------------------------- C6
\* C6: a selected slug that is neither "custom" nor in the description
\* catalog gives a context block with the fallback text, and the slug
\* causes no error: the request is sent, and the status is 500 only when
\* the remote call failed.
C6_UnknownFallback ==
    ( /\ Called
      /\ TemplateOK
      /\ calls[1].selectedKudoType = "slug-desconhecido" )
    => /\ Sent
       /\ status = StatusInternalServerError => response # "ok"
       /\ response = "ok" => status = StatusOK
       /\ ( HasBlock(template.blocks, "kudo_type")
              \/ HasBlock(template.blocks, "kudo_description") )
          => LET B == sent[1].blocks
                 d == LastOf(B, "kudo_description")
             IN  /\ HasBlock(B, "kudo_description")
                 /\ B[d].type = "context"
                 /\ B[d].text = ":bulb: _Tipo de elogio selecionado_"

\* An unknown slug answered with 200 and the fallback text in the body.
C6_Witness ==
    /\ Sent
    /\ calls[1].selectedKudoType = "slug-desconhecido"
    /\ status = StatusOK
    /\ \E k \in 1..Len(sent[1].blocks) :
         sent[1].blocks[k].text = ":bulb: _Tipo de elogio selecionado_"


\* -------------------------------------------------------------------- C7
\* C7 as stated: a template without a kudo_type block makes UpdateModal
\* fail with a structural error, and no views.update request is sent.
C7_MissingKudoTypeIsFatal ==
    ( /\ Called
      /\ TemplateOK
      /\ ~HasBlock(template.blocks, "kudo_type") )
    => /\ ~Sent
       /\ status = StatusInternalServerError

\* C7 as amended: a template without a kudo_type block is no error.  The
\* request is sent with a block list as long as the template's: a
\* kudo_description block the template has is overwritten in place, and
\* without one no description block is added and every block is kept.
\* The status is 500 only when the remote call failed.
C7_MissingKudoTypeIsSilent ==
    ( /\ Called
      /\ TemplateOK
      /\ ~HasBlock(template.blocks, "kudo_type") )
    => LET B == sent[1].blocks
           T == template.blocks
       IN  /\ Sent
           /\ Len(B) = Len(T)
           /\ ~HasBlock(T, "kudo_description")
              => /\ ~HasBlock(B, "kudo_description")
                 /\ \A k \in 1..Len(B) : SameBlock(B[k], T[k])
           /\ status = StatusInternalServerError => response # "ok"
           /\ response = "ok" => status = StatusOK

\* A template of two blocks, neither kudo_type nor kudo_description, sent
\* back as it is and answered with 200.
C7_Witness ==
    /\ Sent
    /\ TemplateOK
    /\ Len(template.blocks) = 2
    /\ ~HasBlock(template.blocks, "kudo_type")
    /\ ~HasBlock(template.blocks, "kudo_description")
    /\ Len(sent[1].blocks) = 2
    /\ status = StatusOK

\* -------------------------------------------------------------------- C8
\* The description block UpdateModal placed: at the index of the template's
\* description block, else right after kudo_type.
NewDescriptionIndex ==
    IF HasBlock(template.blocks, "kudo_description")
    THEN LastOf(template.blocks, "kudo_description")
    ELSE LastOf(template.blocks, "kudo_type") + 1

\* The template's description block holds a previously typed custom name.
HasCustomName ==
    /\ HasBlock(template.blocks, "kudo_description")
    /\ LET old == template.blocks[LastOf(template.blocks, "kudo_description")]
       IN  /\ old.hasElement
           /\ old.initial_value # Absent
           /\ old.initial_value # ""

Places ==
    /\ Sent
    /\ TemplateOK
    /\ ( HasBlock(template.blocks, "kudo_type")
           \/ HasBlock(template.blocks, "kudo_description") )

Args(c) == << c.viewID, c.hash, c.selectedKudoType, c.messageValue >>

WellFormed(blocks) ==
    /\ Cardinality(IndicesOf(blocks, "kudo_type")) = 1
    /\ Cardinality(IndicesOf(blocks, "kudo_description")) <= 1

\* C10: however many selections came before, every body sent for a
\* well-formed template has exactly one kudo_description block, and the
\* template each step starts from is the pristine one: no step changes it.
C10_OneDescriptionBlock ==
    /\ []( ( Sent /\ TemplateOK /\ WellFormed(template.blocks) )
           => Cardinality(IndicesOf(sent[1].blocks, "kudo_description")) = 1 )
    /\ [][ template' = template ]_vars

\* A later selection in a session (the selection before it was the same
\* one) on a template that comes with a description block: still one.
C10_Witness ==
    /\ repeated
    /\ Sent
    /\ WellFormed(template.blocks)
    /\ HasBlock(template.blocks, "kudo_description")
    /\ calls[1].selectedKudoType = "custom"
    /\ Cardinality(IndicesOf(sent[1].blocks, "kudo_description")) = 1


\* =================================================== concurrent UpdateModal
\* Each request is served on its own goroutine, so two UpdateModal calls
\* may interleave statement by statement.  An invocation is followed from
\* json.Unmarshal to the request leaving; its locals live in locals[p] and
\* the tree json.Unmarshal built for it lives on the heap, in trees.
ModalIdle ==
    /\ calls = <<>>
    /\ sent = <<>>
    /\ response = "none"
    /\ status = NoStatus
    /\ written = EmptyBody
    /\ repeated = FALSE

\* Two invocations in flight.
Invocations == { 1, 2 }

\* The invocations touch neither the handlers' responses nor each
\* other's requests.
OnlyConcurrent ==
    UNCHANGED << modalVars, submissionVars, entryVars, otherVars >>

\* The templates the invocations share: the block lists of the source and
\* one template that does not parse.
ConcurrentTemplates ==
    { [ shape |-> "ok", blocks |-> b ] : b \in SourceBlockLists }
      \cup { [ shape |-> "bad_json", blocks |-> <<>> ] }

\* The (viewID, hash, selectedKudoType, messageValue) an invocation gets.
UpdateArgs ==
    { [ viewID |-> v[1], hash |-> v[2], selectedKudoType |-> k,
        messageValue |-> m ] :
        v \in ViewRefs, k \in SelectedValues, m \in MessageValues }

\* Faulty variant of TreeOf: one tree kept and reused by every call.
TreeShared(p) == 1

\* modal.go:54-55  viewData is a local and json.Unmarshal allocates the
\* maps and slices it fills: the tree of invocation p is its own.
TreeOf(p) == p

\* modal.go:72-92  one iteration of the range loop, on block i.
ScanBlock(blocks, messageValue, i, acc) ==
    LET block == blocks[i + 1] IN
    IF ~block.isMap THEN acc
    ELSE
      LET a1 == IF block.block_id = "kudo_type"
                THEN [acc EXCEPT !.kudoTypeIndex = i] ELSE acc
          a2 == IF block.block_id = "kudo_description"
                THEN [a1 EXCEPT !.descriptionBlockIndex = i] ELSE a1
      IN  IF /\ block.block_id = "kudo_message"
             /\ SetsInitialValue(block.hasElement, messageValue)
          THEN [a2 EXCEPT !.blocks[i + 1].initial_value = messageValue]
          ELSE a2

\* An invocation that is past json.Unmarshal and has not returned.
InFlight(p) == pc[p] \in { "scan", "describe", "splice", "marshal", "send" }

\* History kept in locals[p].overlapped: p took a step while another
\* invocation was in flight.
Overlaps(p) == \E q \in Invocations \ { p } : InFlight(q)

\* modal.go:54-70  parse the template; the three structural errors return.
Unmarshal(p) ==
    /\ OnlyConcurrent
    /\ pc[p] = "unmarshal"
    /\ IF TemplateError(template) # ""
       THEN /\ pc' = [pc EXCEPT ![p] = "done"]
            /\ locals' = [locals EXCEPT ![p].err = TemplateError(template),
                                        ![p].overlapped = @ \/ Overlaps(p)]
            /\ UNCHANGED trees
       ELSE /\ pc' = [pc EXCEPT ![p] = "scan"]
            /\ trees' = [trees EXCEPT ![TreeOf(p)] = template.blocks]
            /\ locals' = [locals EXCEPT ![p].i = 0,
                                        ![p].kudoTypeIndex = NotFound,
                                        ![p].descriptionBlockIndex = NotFound,
                                        ![p].overlapped = @ \/ Overlaps(p)]
    /\ UNCHANGED wire

\* modal.go:72-92  the range loop, one block per step.  range evaluates
\* its operand once, so the loop runs over the length the list had when
\* it was parsed.
Scan(p) ==
    /\ OnlyConcurrent
    /\ pc[p] = "scan"
    /\ LET blocks == trees[TreeOf(p)]
           l == locals[p]
       IN  IF l.i >= Len(template.blocks)
           THEN /\ pc' = [pc EXCEPT ![p] = "describe"]
                /\ locals' = [locals EXCEPT ![p].overlapped = @ \/ Overlaps(p)]
                /\ UNCHANGED trees
           ELSE LET acc == ScanBlock(blocks, l.args.messageValue, l.i,
                              [ kudoTypeIndex |-> l.kudoTypeIndex,
                                descriptionBlockIndex |-> l.descriptionBlockIndex,
                                blocks |-> blocks ])
                IN  /\ trees' = [trees EXCEPT ![TreeOf(p)] = acc.blocks]
                    /\ locals' = [locals EXCEPT
                          ![p].i = l.i + 1,
                          ![p].kudoTypeIndex = acc.kudoTypeIndex,
                          ![p].descriptionBlockIndex = acc.descriptionBlockIndex,
                          ![p].overlapped = @ \/ Overlaps(p)]
                    /\ UNCHANGED pc
    /\ UNCHANGED wire

\* modal.go:94-151  build the replacement description block; the custom
\* branch reads the existing description block of the tree.
Describe(p) ==
    /\ OnlyConcurrent
    /\ pc[p] = "describe"
    /\ LET l == locals[p] IN
       locals' = [locals EXCEPT
          ![p].descriptionBlock =
              DescriptionBlock(l.args.selectedKudoType, trees[TreeOf(p)],
                               l.descriptionBlockIndex, l.args.messageValue),
          ![p].overlapped = @ \/ Overlaps(p)]
    /\ pc' = [pc EXCEPT ![p] = "splice"]
    /\ UNCHANGED << trees, wire >>

\* modal.go:153-162  put the block into the tree.
SpliceInto(p) ==
    /\ OnlyConcurrent
    /\ pc[p] = "splice"
    /\ LET l == locals[p] IN
       trees' = [trees EXCEPT ![TreeOf(p)] =
                    Splice(@, l.kudoTypeIndex, l.descriptionBlockIndex,
                           l.descriptionBlock)]
    /\ locals' = [locals EXCEPT ![p].overlapped = @ \/ Overlaps(p)]
    /\ pc' = [pc EXCEPT ![p] = "marshal"]
    /\ UNCHANGED wire

\* modal.go:164-173  serialise the envelope around the tree.
Marshal(p) ==
    /\ OnlyConcurrent
    /\ pc[p] = "marshal"
    /\ LET l == locals[p] IN
       locals' = [locals EXCEPT
          ![p].jsonBody = UpdateRequest(l.args.viewID, l.args.hash,
                                        trees[TreeOf(p)]),
          ![p].overlapped = @ \/ Overlaps(p)]
    /\ pc' = [pc EXCEPT ![p] = "send"]
    /\ UNCHANGED << trees, wire >>

\* modal.go:175-207  the request leaves and the outcome decides the error.
Send(p) ==
    /\ OnlyConcurrent
    /\ pc[p] = "send"
    /\ \E outcome \in RemoteOutcomes :
         locals' = [locals EXCEPT ![p].err = RemoteError(outcome),
                                  ![p].overlapped = @ \/ Overlaps(p)]
    /\ wire' = [wire EXCEPT ![p] = Append(@, locals[p].jsonBody)]
    /\ pc' = [pc EXCEPT ![p] = "done"]
    /\ UNCHANGED trees

NoBlock == Block(Absent, Absent, FALSE, Absent, Absent)

InitConcurrent ==
    /\ template \in ConcurrentTemplates
    /\ ModalIdle
    /\ SubmissionIdle
    /\ EntryIdle
    /\ ParseIdle
    /\ ReminderIdle
    /\ SessionIdle
    /\ pc = [ p \in Invocations |-> "unmarshal" ]
    /\ \E args \in [ Invocations -> UpdateArgs ] :
         locals = [ p \in Invocations |->
                      [ args |-> args[p], i |-> 0,
                        kudoTypeIndex |-> NotFound,
                        descriptionBlockIndex |-> NotFound,
                        descriptionBlock |-> NoBlock,
                        jsonBody |-> UpdateRequest("", "", <<>>),
                        err |-> "", overlapped |-> FALSE ] ]
    /\ trees = [ t \in Invocations |-> <<>> ]
    /\ wire = [ p \in Invocations |-> <<>> ]

NextConcurrent ==
    \E p \in Invocations :
      \/ Unmarshal(p)
      \/ Scan(p)
      \/ Describe(p)
      \/ SpliceInto(p)
      \/ Marshal(p)
      \/ Send(p)

SpecConcurrent == InitConcurrent /\ [][NextConcurrent]_vars

\* ------------------------------------------------------------------- C11
\* What invocation p would send when run alone on the template.
Alone(p) ==
    LET a == locals[p].args IN
    BuildUpdate(a.viewID, a.hash, a.selectedKudoType, a.messageValue, template)

\* C11: two UpdateModal invocations running concurrently, for different
\* views or for the same view, under any interleaving of their steps, each
\* send exactly the body the same invocation sends when run alone, and
\* send nothing when run alone they stop at a template error.
C11_ConcurrentAsAlone ==
    \A p \in Invocations :
      /\ Len(wire[p]) <= 1
      /\ pc[p] = "done" =>
           IF Alone(p).err # ""
           THEN wire[p] = <<>>
           ELSE wire[p] = << Alone(p).body >>

\* Both invocations ran interleaved on the same view with different
\* selections and messages, and both requests left.
C11_Witness ==
    /\ \A p \in Invocations :
         pc[p] = "done" /\ locals[p].overlapped /\ Len(wire[p]) = 1
    /\ locals[1].args.viewID = locals[2].args.viewID
    /\ locals[1].args.selectedKudoType # locals[2].args.selectedKudoType
    /\ locals[1].args.messageValue # locals[2].args.messageValue
    /\ wire[1] # wire[2]


\* ============================================= payloads with many actions
\* A block_actions payload carries a list of actions.  The payloads here
\* have up to MaxActions of them, for one view, over a state without the
\* message field and one with a typed message.  An action is the change
\* of another field, or of kudo_type to no value, a slug or "custom".
MultiActions ==
    { [ action_id |-> "kudo_users", value |-> "" ] }
      \cup { [ action_id |-> "kudo_type", value |-> v ] :
               v \in { "", "resolvedor-de-problemas", "custom" } }

MultiCallbacks ==
    { [ viewID |-> "V123456", hash |-> "hash123", actions |-> a, state |-> st ] :
        a \in SeqsUpTo(MultiActions, MaxActions),
        st \in { [ kind |-> "nil", value |-> "" ],
                 [ kind |-> "value", value |-> "Mensagem existente" ] } }

\* function.go:62-63  a block_actions payload arrives and is handled;
\* payload remembers it.
ReceiveBlockActions(callback) ==
    /\ HandleBlockActions(callback)
    /\ payload' = [ kind |-> "block_actions", callback |-> callback ]
    /\ UNCHANGED << opened, trace, submissionVars, concurrentVars, otherVars >>

InitActions ==
    /\ template \in ConcurrentTemplates
    /\ ModalIdle
    /\ SubmissionIdle
    /\ EntryIdle
    /\ ConcurrentIdle
    /\ ParseIdle
    /\ ReminderIdle
    /\ SessionIdle

NextActions ==
    \E callback \in MultiCallbacks : ReceiveBlockActions(callback)

SpecActions == InitActions /\ [][NextActions]_vars

\* ------------------------------------------------------------------- C12
IsBlockActions == payload.kind = "block_actions"

\* Positions of the actions the handler may act on.
Matching(actions) ==
    { k \in 1..Len(actions) :
        actions[k].action_id = "kudo_type" /\ actions[k].value # "" }

Earliest(S) == CHOOSE k \in S : \A j \in S : k <= j

\* C12: for a block_actions payload with any list of actions, the handler
\* acts only on the first action, in list order, whose action_id is
\* "kudo_type" and whose selected value is non-empty: at most one
\* UpdateModal call and at most one views.update request per payload, both
\* built from that action's value, whatever actions follow it.
C12_FirstMatchOnly ==
    IsBlockActions =>
      LET callback == payload.callback
          m == Matching(callback.actions)
      IN  /\ Len(calls) <= 1
          /\ Len(sent) <= 1
          /\ m # {} =>
               LET selected == callback.actions[Earliest(m)].value
                   message == SuggestedMessage(selected, CurrentMessage(callback))
               IN  /\ Called
                   /\ calls[1].selectedKudoType = selected
                   /\ calls[1].messageValue = message
                   /\ TemplateOK =>
                        sent = << BuildUpdate(callback.viewID, callback.hash,
                                              selected, message, template).body >>

\* Two kudo_type actions with different non-empty values in one payload:
\* the request was built from the first.
C12_Witness ==
    /\ IsBlockActions
    /\ Sent
    /\ LET a == payload.callback.actions IN
       /\ Len(a) = 2
       /\ Matching(a) = { 1, 2 }
       /\ a[1].value = "custom"
       /\ a[2].value = "resolvedor-de-problemas"
    /\ calls[1].selectedKudoType = "custom"

\* ------------------------------------------------------------------- C13
\* Nothing left the process for the last request.
NoRemoteCall ==
    /\ sent = <<>>
    /\ opened = <<>>
    /\ invited = <<>>
    /\ posted = <<>>

\* C13: a block_actions payload in which no action has action_id
\* "kudo_type" with a non-empty selected value (other action ids, a
\* kudo_type action with an empty value, an empty list) is answered with
\* status 200 and an empty body, and no remote call is made.
C13_NoMatchAcknowledged ==
    (IsBlockActions /\ Matching(payload.callback.actions) = {}) =>
      /\ status = StatusOK
      /\ written = EmptyBody
      /\ calls = <<>>
      /\ response = "none"
      /\ NoRemoteCall

\* A payload with another action and a kudo_type action whose value is
\* empty was acknowledged.
C13_Witness ==
    /\ IsBlockActions
    /\ LET a == payload.callback.actions IN
       /\ Len(a) = 2
       /\ a[1].action_id = "kudo_users"
       /\ a[2].action_id = "kudo_type" /\ a[2].value = ""
    /\ status = StatusOK
    /\ written = EmptyBody
    /\ NoRemoteCall


\* ============================================ handlers.HandleViewSubmission
\* ------------------------------------------------------ strings with length
\* A custom category name is a Go string whose length matters.  It is
\* written as a sequence of runs, each one character repeated n >= 1
\* times: a space, the ASCII letter "a", or the accented letter e-acute
\* (one character, two bytes in UTF-8).
MaxDescriptionLength == 150

Run(ch, n) == [ ch |-> ch, n |-> n ]

\* Bytes of one character in UTF-8.
Utf8Width(ch) == IF ch = "e-acute" THEN 2 ELSE 1

\* strings.TrimSpace: leading and trailing white space dropped.
RECURSIVE TrimLeft(_)
TrimLeft(str) ==
    IF str # <<>> /\ Head(str).ch = " " THEN TrimLeft(Tail(str)) ELSE str

RECURSIVE TrimRight(_)
TrimRight(str) ==
    IF str # <<>> /\ str[Len(str)].ch = " "
    THEN TrimRight(SubSeq(str, 1, Len(str) - 1))
    ELSE str

TrimSpace(str) == TrimRight(TrimLeft(str))

\* Go's len on a string: its number of bytes.
RECURSIVE ByteLen(_)
ByteLen(str) ==
    IF str = <<>> THEN 0
    ELSE Head(str).n * Utf8Width(Head(str).ch) + ByteLen(Tail(str))

\* The number of characters of a string.
RECURSIVE RuneCount(_)
RuneCount(str) ==
    IF str = <<>> THEN 0 ELSE Head(str).n + RuneCount(Tail(str))

\* Lengths on both sides of the limit, and of half the limit.
NameLengths ==
    { 1, MaxDescriptionLength \div 2, MaxDescriptionLength \div 2 + 1,
      MaxDescriptionLength - 1, MaxDescriptionLength, MaxDescriptionLength + 1 }

\* Names before trimming: empty, all ASCII, all accented, ASCII ending in
\* one accented letter; each also with a space before, after, or both.
NameCores ==
    { <<>> }
      \cup { << Run("a", n) >> : n \in NameLengths }
      \cup { << Run("e-acute", n) >> : n \in NameLengths }
      \cup { << Run("a", n), Run("e-acute", 1) >> : n \in NameLengths }

Names ==
    { lead \o core \o trail :
        lead \in { <<>>, << Run(" ", 1) >> },
        core \in NameCores,
        trail \in { <<>>, << Run(" ", 2) >> } }

\* --------------------------------------------------------------- payloads
\* The selected option of kudo_type: its value and its text, a list of
\* words and the single spaces between them.  hasText is FALSE when the
\* option has no text object (nothing was selected).
Option(value, hasText, text) ==
    [ value |-> value, hasText |-> hasText, text |-> text ]

PredefinedOptions ==
    { Option("resolvedor-de-problemas", TRUE,
             << ":zap:", " ", "Resolvedor(a)", " ", "de", " ", "Problemas" >>),
      Option("slug-desconhecido", TRUE, << "Desconhecido" >>),
      Option("", FALSE, <<>>) }

CustomOption == Option("custom", TRUE, << ":pencil2:", " ", "Personalizado" >>)

\* Selected users, in the order of the submission.
UserLists ==
    { <<>>, << "U789012" >>, << "U789012", "U222222" >>,
      << "U222222", "U789012" >> }

\* view.state.values["kudo_description"]: the block may be missing, the
\* action inside it may be missing, or it carries a value.
Descriptions ==
    { [ kind |-> "no_block", value |-> <<>> ],
      [ kind |-> "no_action", value |-> <<>> ] }
      \cup { [ kind |-> "value", value |-> n ] : n \in Names }

Submission(hasState, users, message, option, description) ==
    [ user |-> "U123456", hasState |-> hasState, selectedUsers |-> users,
      kudoMessage |-> message, option |-> option,
      description |-> description ]

\* A predefined category shows a context block, which has no state.
Submissions ==
    { Submission(FALSE, <<>>, "", Option("", FALSE, <<>>),
                 [ kind |-> "no_block", value |-> <<>> ]) }
      \cup { Submission(TRUE, u, m, o, [ kind |-> "no_block", value |-> <<>> ]) :
               u \in UserLists, m \in MessageValues, o \in PredefinedOptions }
      \cup { Submission(TRUE, u, m, CustomOption, d) :
               u \in UserLists, m \in MessageValues, d \in Descriptions }

\* --------------------------------------------------------------- services
RECURSIVE Concat(_)
Concat(words) ==
    IF words = <<>> THEN "" ELSE Head(words) \o Concat(Tail(words))

\* strings.Index(s, " "): place of the first space (0 when there is none).
RECURSIVE IndexOfSpace(_, _)
IndexOfSpace(words, k) ==
    IF k > Len(words) THEN 0
    ELSE IF words[k] = " " THEN k ELSE IndexOfSpace(words, k + 1)

\* kudos.go:60-65  split at the first space, unless the text begins with
\* it or has none.
ParseKudoTypeText(kudoTypeFullText) ==
    LET idx == IndexOfSpace(kudoTypeFullText, 1) IN
    IF idx > 1
    THEN [ emoji |-> Concat(SubSeq(kudoTypeFullText, 1, idx - 1)),
           text |-> Concat(SubSeq(kudoTypeFullText, idx + 1,
                                  Len(kudoTypeFullText))) ]
    ELSE [ emoji |-> "", text |-> Concat(kudoTypeFullText) ]

\* formatting.go:12-18  the mentions, joined with ", ".
RECURSIVE FormatUsersForSlack(_)
FormatUsersForSlack(userIDs) ==
    IF userIDs = <<>> THEN ""
    ELSE IF Len(userIDs) = 1 THEN "<@" \o userIDs[1] \o ">"
         ELSE "<@" \o Head(userIDs) \o ">" \o ", "
                \o FormatUsersForSlack(Tail(userIDs))

\* formatting.go:22-32  for a message of one line.
FormatAsSlackQuote(message) ==
    IF message = "" THEN "" ELSE "> " \o message

\* formatting.go:35-93  the seven blocks.  A text built by Sprintf from a
\* name of measured length is kept as the list of its pieces.
FormatKudosAsBlocks(senderID, recipientIDs, kudoTypeEmoji, kudoTypeText, message) ==
    << [ type |-> "header", text |-> ":tada: Novo Elogio! :tada:" ],
       [ type |-> "section",
         fields |-> << "*De:*\n<@" \o senderID \o ">",
                       "*Para:*\n" \o FormatUsersForSlack(recipientIDs) >> ],
       [ type |-> "divider" ],
       [ type |-> "section",
         text |-> << kudoTypeEmoji, " *", kudoTypeText, "*" >> ],
       [ type |-> "section", text |-> FormatAsSlackQuote(message) ],
       [ type |-> "divider" ],
       [ type |-> "context",
         text |-> ":sparkles: _Continue fazendo a diferenca!_ :sparkles:" ] >>

\* kudos.go:36-49  the chat.postMessage call.
PostMessageCall(senderID, recipientIDs, kudoTypeEmoji, kudoTypeText, message) ==
    [ channel |-> "SLACK_CHANNEL_ID",
      blocks |-> FormatKudosAsBlocks(senderID, recipientIDs, kudoTypeEmoji,
                                     kudoTypeText, message),
      text |-> << "<@" \o senderID \o ">", " elogiou ",
                  FormatUsersForSlack(recipientIDs), ": ",
                  kudoTypeEmoji, " ", kudoTypeText >> ]

\* What PostMessage may return.
PostOutcomes == { "ok", "error" }

PostError(outcome) ==
    IF outcome = "error" THEN "error posting message" ELSE ""

\* Faulty variant of InviteUsersToChannel: the loop left after the first
\* recipient.
InviteFirstOnly(recipientIDs) ==
    [ k \in 1..(IF Len(recipientIDs) > 0 THEN 1 ELSE 0) |->
        [ channel |-> "SLACK_CHANNEL_ID", user |-> recipientIDs[k] ] ]

\* kudos.go:13-28  one invitation per recipient, in order; whatever the
\* outcome of one, the loop goes on to the next.
InviteUsersToChannel(recipientIDs) ==
    [ k \in 1..Len(recipientIDs) |->
        [ channel |-> "SLACK_CHANNEL_ID", user |-> recipientIDs[k] ] ]

\* ---------------------------------------------------------------- handler
\* view_submission.go:83-90  the custom name as the handler reads it.
CustomDescription(callback) ==
    IF callback.description.kind = "value"
    THEN TrimSpace(callback.description.value)
    ELSE <<>>

\* view_submission.go:94-98  what is wrong with the name ("" for nothing).
DescriptionError(customDescription) ==
    IF customDescription = <<>>
    THEN "Por favor, preencha o nome do tipo de elogio"
    ELSE IF ByteLen(customDescription) > MaxDescriptionLength
         THEN "Nome do tipo de elogio muito longo (maximo 150 caracteres)"
         ELSE ""

\* view_submission.go:101-103
MessageError(kudoMessage) ==
    IF kudoMessage = ""
    THEN "A mensagem e obrigatoria para elogios personalizados"
    ELSE ""

\* Faulty variant of ValidationErrors: only the first problem reported.
ValidationErrorsFirstOnly(customDescription, kudoMessage) ==
    LET keys == IF DescriptionError(customDescription) # ""
                THEN { "kudo_description" }
                ELSE IF MessageError(kudoMessage) # ""
                     THEN { "kudo_message" }
                     ELSE {}
    IN  [ k \in keys |->
            IF k = "kudo_description"
            THEN DescriptionError(customDescription)
            ELSE MessageError(kudoMessage) ]

\* view_submission.go:93-103  the errors map.
ValidationErrors(customDescription, kudoMessage) ==
    LET keys == (IF DescriptionError(customDescription) # ""
                 THEN { "kudo_description" } ELSE {})
                  \cup (IF MessageError(kudoMessage) # ""
                        THEN { "kudo_message" } ELSE {})
    IN  [ k \in keys |->
            IF k = "kudo_description"
            THEN DescriptionError(customDescription)
            ELSE MessageError(kudoMessage) ]

\* Faulty variant of MessageToPost: the submitted text posted as it is.
MessageAsSubmitted(kudoTypeValue, kudoMessage) == kudoMessage

\* view_submission.go:122-126  the message of a predefined category.
MessageToPost(kudoTypeValue, kudoMessage) ==
    IF kudoMessage = ""
    THEN IF kudoTypeValue \in DOMAIN KudoSuggestedMessages
         THEN KudoSuggestedMessages[kudoTypeValue]
         ELSE ""
    ELSE kudoMessage

\* Faulty variant of SubmissionStatus: a posting error answered with 500.
SubmissionStatusFromError(err) ==
    IF err # "" THEN StatusInternalServerError ELSE StatusOK

\* view_submission.go:141-147  the error is logged and 200 is written.
SubmissionStatus(err) == StatusOK

\* kudos.go:31-56 and view_submission.go:133-147  invite, post, acknowledge.
PostKudos(senderID, recipientIDs, kudoTypeEmoji, kudoTypeText, message) ==
    /\ invited' = InviteUsersToChannel(recipientIDs)
    /\ \E outcome \in PostOutcomes :
         /\ posted' = << PostMessageCall(senderID, recipientIDs,
                                         kudoTypeEmoji, kudoTypeText, message) >>
         /\ response' = outcome
         /\ status' = SubmissionStatus(PostError(outcome))
         /\ written' = EmptyBody

\* view_submission.go:64-148  one submission, from the state check to the
\* status written.  Reading the text of an option that has none
\* dereferences a nil pointer: the handler panics and writes nothing.
HandleViewSubmission(callback) ==
    IF ~callback.hasState
    THEN /\ status' = StatusBadRequest
         /\ written' = EmptyBody
         /\ response' = "none"
         /\ invited' = <<>>
         /\ posted' = <<>>
    ELSE IF ~callback.option.hasText
    THEN /\ status' = NoStatus
         /\ written' = EmptyBody
         /\ response' = "panic"
         /\ invited' = <<>>
         /\ posted' = <<>>
    ELSE
      LET selectedUsers == callback.selectedUsers
          kudoMessage == callback.kudoMessage
          kudoTypeFullText == callback.option.text
          kudoTypeValue == callback.option.value
      IN  IF kudoTypeValue = "custom"
          THEN LET customDescription == CustomDescription(callback)
                   errors == ValidationErrors(customDescription, kudoMessage)
               IN  IF DOMAIN errors # {}
                   THEN /\ status' = StatusOK
                        /\ written' = ErrorsBody(errors)
                        /\ response' = "none"
                        /\ invited' = <<>>
                        /\ posted' = <<>>
                   ELSE PostKudos(callback.user, selectedUsers, ":pencil2:",
                                  customDescription, kudoMessage)
          ELSE LET parsed == ParseKudoTypeText(kudoTypeFullText) IN
               PostKudos(callback.user, selectedUsers, parsed.emoji,
                         parsed.text,
                         MessageToPost(kudoTypeValue, kudoMessage))

\* function.go:64-65  a view_submission payload arrives and is handled;
\* payload remembers it.
ReceiveViewSubmission(callback) ==
    /\ HandleViewSubmission(callback)
    /\ payload' = [ kind |-> "view_submission", callback |-> callback ]
    /\ UNCHANGED << template, calls, sent, repeated, opened, trace,
                    concurrentVars, otherVars >>

\* The modal as the slash command opens it: users, type, message.
GiveKudosViewTemplate ==
    [ shape |-> "ok",
      blocks |-> << Block("kudo_users", "input", TRUE, Absent, Absent),
                    Block("kudo_type", "input", TRUE, Absent, Absent),
                    Block("kudo_message", "input", TRUE, Absent, Absent) >> ]

InitSubmission ==
    /\ template = GiveKudosViewTemplate
    /\ ModalIdle
    /\ SubmissionIdle
    /\ EntryIdle
    /\ ConcurrentIdle
    /\ ParseIdle
    /\ ReminderIdle
    /\ SessionIdle

NextSubmission ==
    \E callback \in Submissions : ReceiveViewSubmission(callback)

SpecSubmission == InitSubmission /\ [][NextSubmission]_vars


\* ============================================================ entry points
\* ---------------------------------------------------------------- requests
\* X-Slack-Signature: absent, not "v0=" and hex digits, hex digits that are
\* not the HMAC-SHA256 of "v0:" + timestamp + ":" + body under the signing
\* secret, or that HMAC.
Signatures == { "missing", "malformed", "mismatch", "valid" }

\* X-Slack-Request-Timestamp: absent, not a number, more than five
\* minutes from now, or within five minutes.
Timestamps == { "missing", "malformed", "expired", "fresh" }

\* The request body: a form that parses or one that does not.
Forms == { "ok", "malformed" }

\* The trigger_id form field: not in the form, empty, or a trigger.
SlashRequests ==
    { [ signature |-> sg, timestamp |-> ts, form |-> f, trigger_id |-> t ] :
        sg \in Signatures, ts \in Timestamps, f \in Forms,
        t \in { Absent, "", "12345.67890" } }

\* block_actions callbacks and submissions sent through the entry point.
\* The last callback is the click on the button of the reminder message
\* (action_id "open_kudos_modal", value "open_modal"), which has no view.
EntryCallbacks ==
    { [ viewID |-> "V123456", hash |-> "hash123", actions |-> a,
        trigger_id |-> "12345.67890",
        state |-> [ kind |-> "nil", value |-> "" ] ] :
        a \in { <<>>,
                << [ action_id |-> "kudo_type", value |-> "custom" ] >>,
                << [ action_id |-> "kudo_type",
                     value |-> "resolvedor-de-problemas" ] >> } }
      \cup { [ viewID |-> "", hash |-> "",
               actions |-> << [ action_id |-> "open_kudos_modal",
                                value |-> "open_modal" ] >>,
               trigger_id |-> "12345.67890",
               state |-> [ kind |-> "nil", value |-> "" ] ] }

EntrySubmissions ==
    { Submission(FALSE, <<>>, "", Option("", FALSE, <<>>),
                 [ kind |-> "no_block", value |-> <<>> ]),
      Submission(TRUE, << "U789012" >>, "",
                 Option("resolvedor-de-problemas", TRUE,
                        << ":zap:", " ", "Resolvedor(a)", " ", "de", " ",
                           "Problemas" >>),
                 [ kind |-> "no_block", value |-> <<>> ]),
      Submission(TRUE, << "U789012", "U222222" >>, "Mensagem existente",
                 CustomOption,
                 [ kind |-> "value", value |-> << Run("a", 1) >> ]),
      Submission(TRUE, << "U789012" >>, "", CustomOption,
                 [ kind |-> "no_block", value |-> <<>> ]),
      Submission(TRUE, << "U789012" >>, "Mensagem existente",
                 Option("", FALSE, <<>>),
                 [ kind |-> "no_block", value |-> <<>> ]) }

\* The payload form field: not in the form, empty, not JSON, or an
\* interaction callback.
Payloads ==
    { [ kind |-> "missing" ], [ kind |-> "empty" ], [ kind |-> "invalid_json" ] }
      \cup { [ kind |-> "callback", type |-> "block_actions", callback |-> c ] :
               c \in EntryCallbacks }
      \cup { [ kind |-> "callback", type |-> "view_submission", callback |-> c ] :
               c \in EntrySubmissions }
      \cup { [ kind |-> "callback", type |-> t, callback |-> <<>> ] :
               t \in { "unknown_type", "shortcut" } }

InteractivityRequests ==
    { [ signature |-> sg, timestamp |-> ts, form |-> f, payload |-> p ] :
        sg \in Signatures, ts \in Timestamps, f \in Forms, p \in Payloads }

\* ------------------------------------------------------------ verification
\* function.go:30  slack.NewSecretsVerifier(r.Header, secret) is given the
\* headers and the secret only.  It fails when a header is absent, when
\* the signature is not hex, when the timestamp is not a number and when
\* the timestamp is too old.  The verifier it returns is dropped (the
\* blank identifier): the body is never written into it and it is never
\* asked to compare the digest.
NewSecretsVerifier(request) ==
    IF request.signature = "missing" \/ request.timestamp = "missing"
    THEN "missing headers"
    ELSE IF request.signature = "malformed"
    THEN "encoding/hex: invalid byte"
    ELSE IF request.timestamp = "malformed"
    THEN "strconv.ParseInt: invalid syntax"
    ELSE IF request.timestamp = "expired"
    THEN "timestamp is too old"
    ELSE ""

\* http.Request.FormValue: the first value of the field, "" when the form
\* does not have it.
FormValue(value) == IF value = Absent THEN "" ELSE value

\* function.go:45-46  the payload field as FormValue returns it is "".
PayloadMissing(p) == p.kind \in { "missing", "empty" }

\* ------------------------------------------------------ services.OpenModal
\* Faulty variant of OpenError: the ok member of the response tested.
OpenErrorChecksOk(outcome) ==
    CASE outcome = "network_error" -> "error making POST request"
      [] outcome = "not_ok" -> "slack API error"
      [] OTHER -> ""

\* modal.go:37-49  only a failed round trip is an error; the response body
\* is logged, whatever it says.
OpenError(outcome) ==
    IF outcome = "network_error" THEN "error making POST request" ELSE ""

\* modal.go:17-27  the views.open body: the template with trigger_id set.
OpenRequest(triggerID, tpl) == [ trigger_id |-> triggerID, view |-> tpl ]

\* What a response writes, and what a request that stops early leaves out.
Reply(code, text) ==
    /\ status' = code
    /\ written' = text
    /\ response' = "none"

NoUpdate ==
    /\ calls' = <<>>
    /\ sent' = <<>>
    /\ repeated' = FALSE
    /\ UNCHANGED template

NoPost == invited' = <<>> /\ posted' = <<>>

\* ------------------------------------------- handlers.HandleSlashCommand
\* Faulty variant of MissingTriggerID: the test left out.
TriggerIDNeverMissing(triggerID) == FALSE

\* part_009:13-14  the guard on the trigger_id form value.
MissingTriggerID(triggerID) == triggerID = ""

\* The slash-command handler with the OpenModal call it makes
\* (modal.go:16-50): a missing trigger_id is a bad request, a template
\* that is not JSON and a failed round trip are server errors, and any
\* response that arrives is a success.
HandleSlashCommand(request) ==
    LET triggerID == FormValue(request.trigger_id) IN
    IF MissingTriggerID(triggerID)
    THEN /\ Reply(StatusBadRequest, TextBody("Missing trigger_id"))
         /\ opened' = <<>>
    ELSE IF template.shape = "bad_json"
    THEN /\ Reply(StatusInternalServerError, TextBody("Internal Server Error"))
         /\ opened' = <<>>
    ELSE \E outcome \in RemoteOutcomes :
         /\ opened' = << OpenRequest(triggerID, template) >>
         /\ response' = outcome
         /\ status' = IF OpenError(outcome) # ""
                      THEN StatusInternalServerError
                      ELSE StatusOK
         /\ written' = IF OpenError(outcome) # ""
                       THEN TextBody("Internal Server Error")
                       ELSE EmptyBody

\* The slash-command entry point: verify, parse the form, hand over.
handleSlashCommand(request) ==
    /\ payload' = [ kind |-> "slash_command", request |-> request ]
    /\ NoUpdate
    /\ NoPost
    /\ UNCHANGED << concurrentVars, otherVars >>
    /\ IF NewSecretsVerifier(request) # ""
       THEN /\ trace' = <<>>
            /\ Reply(StatusUnauthorized, TextBody("Invalid Slack Signing Secret"))
            /\ opened' = <<>>
       ELSE IF request.form = "malformed"
       THEN /\ trace' = << "ParseForm" >>
            /\ Reply(StatusBadRequest, TextBody("Bad Request"))
            /\ opened' = <<>>
       ELSE /\ trace' = << "ParseForm", "HandleSlashCommand" >>
            /\ HandleSlashCommand(request)

\* Faulty variant of UnknownTypeStatus: an unknown type refused.
UnknownTypeRefused == StatusBadRequest

\* function.go:66-68  the default branch of the switch only acknowledges.
UnknownTypeStatus == StatusOK

\* function.go:28-70  the interactivity entry point: verify, parse the
\* form, read the payload, route on its type.
handleInteractivity(request) ==
    /\ payload' = [ kind |-> "interactivity", request |-> request ]
    /\ opened' = <<>>
    /\ UNCHANGED << concurrentVars, otherVars >>
    /\ IF NewSecretsVerifier(request) # ""
       THEN /\ trace' = <<>>
            /\ Reply(StatusUnauthorized, TextBody("Invalid Slack Signing Secret"))
            /\ NoUpdate
            /\ NoPost
       ELSE IF request.form = "malformed"
       THEN /\ trace' = << "ParseForm" >>
            /\ Reply(StatusBadRequest, TextBody("Bad Request"))
            /\ NoUpdate
            /\ NoPost
       ELSE IF PayloadMissing(request.payload)
       THEN /\ trace' = << "ParseForm" >>
            /\ Reply(StatusBadRequest, TextBody("Bad Request"))
            /\ NoUpdate
            /\ NoPost
       ELSE IF request.payload.kind = "invalid_json"
       THEN /\ trace' = << "ParseForm", "Unmarshal" >>
            /\ Reply(StatusBadRequest,
                     TextBody("Invalid Slack Interaction Callback"))
            /\ NoUpdate
            /\ NoPost
       ELSE IF request.payload.type = "block_actions"
       THEN /\ trace' = << "ParseForm", "Unmarshal", "HandleBlockActions" >>
            /\ HandleBlockActions(request.payload.callback)
            /\ NoPost
       ELSE IF request.payload.type = "view_submission"
       THEN /\ trace' = << "ParseForm", "Unmarshal", "HandleViewSubmission" >>
            /\ HandleViewSubmission(request.payload.callback)
            /\ NoUpdate
       ELSE /\ trace' = << "ParseForm", "Unmarshal" >>
            /\ Reply(UnknownTypeStatus, EmptyBody)
            /\ NoUpdate
            /\ NoPost

\* The template embedded in the build: the modal, or a file that is not
\* JSON.
EntryTemplates ==
    { GiveKudosViewTemplate, [ shape |-> "bad_json", blocks |-> <<>> ] }

InitEntry ==
    /\ template \in EntryTemplates
    /\ ModalIdle
    /\ SubmissionIdle
    /\ EntryIdle
    /\ ConcurrentIdle
    /\ ParseIdle
    /\ ReminderIdle
    /\ SessionIdle

NextEntry ==
    \/ \E request \in SlashRequests : handleSlashCommand(request)
    \/ \E request \in InteractivityRequests : handleInteractivity(request)

SpecEntry == InitEntry /\ [][NextEntry]_vars

\* ------------------------------------------------------------------- C14
IsSlashCommand == payload.kind = "slash_command"

IsInteractivity == payload.kind = "interactivity"

Ran(stage) == \E k \in 1..Len(trace) : trace[k] = stage

\* C14: a remote response with ok=false is treated asymmetrically.  On
\* views.update it is an error: UpdateModal returns it and
\* HandleBlockActions answers 500, as it does for a network error.  On
\* views.open it is only logged: OpenModal returns no error and the
\* slash-command handler answers 200.
C14_NotOkAsymmetry ==
    /\ (IsInteractivity /\ Ran("HandleBlockActions") /\ Sent
          /\ response \in { "not_ok", "network_error" }) =>
         /\ status = StatusInternalServerError
         /\ written = TextBody("Error updating modal")
    /\ (IsSlashCommand /\ Ran("HandleSlashCommand") /\ opened # <<>>
          /\ response = "not_ok") =>
         /\ status = StatusOK
         /\ written = EmptyBody

\* A slash command opened the modal, Slack answered ok=false and the
\* command was answered 200.
C14_Witness ==
    /\ IsSlashCommand
    /\ Len(opened) = 1
    /\ opened[1].trigger_id = "12345.67890"
    /\ response = "not_ok"
    /\ status = StatusOK


\* ------------------------------------------------------------------- C15
IsViewSubmission == payload.kind = "view_submission"

\* The last payload was a submission with a state and a selected option
\* that carries its text, as every option of the modal does.
Submitted ==
    /\ IsViewSubmission
    /\ payload.callback.hasState
    /\ payload.callback.option.hasText

SubmittedCustom == Submitted /\ payload.callback.option.value = "custom"

\* The submitted kudo_description value without its surrounding white
\* space (empty when the field is not in the state).
SubmittedName ==
    LET d == payload.callback.description IN
    IF d.kind = "value" THEN TrimSpace(d.value) ELSE <<>>

\* The name fails the handler's test: empty, or over the limit as the
\* handler measures it.
NameInvalid ==
    SubmittedName = <<>> \/ ByteLen(SubmittedName) > MaxDescriptionLength

MessageEmpty == payload.callback.kudoMessage = ""

\* C15: for a submission whose selected category is "custom", if the
\* trimmed kudo_description value is empty or too long, or the
\* kudo_message value is empty, the handler responds 200 with the JSON body
\* {response_action: "errors", errors: {...}} and makes no post-message
\* call nor any other remote call; errors has key kudo_description exactly
\* when the name is invalid and key kudo_message exactly when the message
\* is empty.
C15_ValidationErrors ==
    (SubmittedCustom /\ (NameInvalid \/ MessageEmpty)) =>
      /\ status = StatusOK
      /\ written.kind = "json"
      /\ written.response_action = "errors"
      /\ DOMAIN written.errors =
           (IF NameInvalid THEN { "kudo_description" } ELSE {})
             \cup (IF MessageEmpty THEN { "kudo_message" } ELSE {})
      /\ NoRemoteCall

\* A custom submission with a name of spaces only and no message was
\* answered with both errors.
C15_Witness ==
    /\ SubmittedCustom
    /\ payload.callback.description.kind = "value"
    /\ payload.callback.description.value # <<>>
    /\ SubmittedName = <<>>
    /\ MessageEmpty
    /\ written.kind = "json"
    /\ DOMAIN written.errors = { "kudo_description", "kudo_message" }


\* ------------------------------------------------------------------- C16
\* The response reports a problem with the name.
NameRejected ==
    /\ written.kind = "json"
    /\ "kudo_description" \in DOMAIN written.errors

NameTooLongReported ==
    /\ NameRejected
    /\ written.errors["kudo_description"] =
         "Nome do tipo de elogio muito longo (maximo 150 caracteres)"

\* C16: a custom category name is rejected as too long exactly when, after
\* trimming, it is longer than 150 characters: every trimmed name of 1 to
\* 150 characters, accented letters included, is accepted, and every
\* trimmed name of 151 or more characters is rejected.
C16_LimitInCharacters ==
    SubmittedCustom =>
      /\ RuneCount(SubmittedName) \in 1..MaxDescriptionLength => ~NameRejected
      /\ RuneCount(SubmittedName) > MaxDescriptionLength => NameTooLongReported

\* A name of 76 accented letters, 152 bytes, was reported as too long.
C16_Witness ==
    /\ SubmittedCustom
    /\ ~MessageEmpty
    /\ SubmittedName = << Run("e-acute", MaxDescriptionLength \div 2 + 1) >>
    /\ RuneCount(SubmittedName) <= MaxDescriptionLength
    /\ NameTooLongReported
    /\ posted = <<>>


\* ------------------------------------------------------------------- C17
\* The submission passes validation: a predefined category, or "custom"
\* with a valid name and a message.
SubmittedValid ==
    /\ Submitted
    /\ SubmittedCustom => (~NameInvalid /\ ~MessageEmpty)

\* The mentions of up to two users, in their order.
Mentions(users) ==
    CASE Len(users) = 0 -> ""
      [] Len(users) = 1 -> "<@" \o users[1] \o ">"
      [] Len(users) = 2 -> "<@" \o users[1] \o ">, <@" \o users[2] \o ">"

\* C17: a submission that passes validation makes exactly one post-message
\* call, whose recipients are the selected users in submission order, and
\* is answered with status 200 and no body whether that call succeeds or
\* fails.
C17_OnePostAlwaysAcknowledged ==
    SubmittedValid =>
      /\ Len(posted) = 1
      /\ posted[1].blocks[2].fields[2] =
           "*Para:*\n" \o Mentions(payload.callback.selectedUsers)
      /\ response \in PostOutcomes
      /\ status = StatusOK
      /\ written = EmptyBody

\* Two recipients, the post failed, the submission was acknowledged.
C17_Witness ==
    /\ SubmittedValid
    /\ payload.callback.selectedUsers = << "U222222", "U789012" >>
    /\ Len(posted) = 1
    /\ posted[1].blocks[2].fields[2] = "*Para:*\n<@U222222>, <@U789012>"
    /\ response = "error"
    /\ status = StatusOK

\* ------------------------------------------------------------------- C18
SubmittedPredefined == Submitted /\ payload.callback.option.value # "custom"

\* C18: for a submission with a predefined category the message posted is
\* the submitted kudo_message when it is non-empty; when it is empty it is
\* the catalog's suggested message for the selected slug, or the empty
\* string when the slug is not in the catalog.
C18_PostedMessage ==
    SubmittedPredefined =>
      LET slug == payload.callback.option.value
          submitted == payload.callback.kudoMessage
          expected == IF submitted # "" THEN submitted
                      ELSE IF slug \in DOMAIN KudoSuggestedMessages
                           THEN KudoSuggestedMessages[slug]
                           ELSE ""
      IN  /\ Len(posted) = 1
          /\ posted[1].blocks[5].text =
               (IF expected = "" THEN "" ELSE "> " \o expected)

\* A catalog slug submitted without a message: the suggestion was posted.
C18_Witness ==
    /\ SubmittedPredefined
    /\ payload.callback.option.value = "resolvedor-de-problemas"
    /\ payload.callback.kudoMessage = ""
    /\ Len(posted) = 1
    /\ posted[1].blocks[5].text =
         "> Sua habilidade de resolver problemas salvou o dia!"


\* ------------------------------------------------------------------- C19
\* The last request carried the HMAC of its body and a fresh timestamp.
CorrectlySigned ==
    /\ payload.request.signature = "valid"
    /\ payload.request.timestamp = "fresh"

\* C19: a correctly signed interactivity request whose payload parses and
\* whose type is neither block_actions nor view_submission is answered
\* with status 200 and an empty body; no handler is called and no remote
\* call is made.
C19_UnknownTypeAcknowledged ==
    (/\ IsInteractivity
     /\ CorrectlySigned
     /\ payload.request.form = "ok"
     /\ payload.request.payload.kind = "callback"
     /\ payload.request.payload.type \notin { "block_actions", "view_submission" })
      => /\ status = StatusOK
         /\ written = EmptyBody
         /\ ~Ran("HandleBlockActions")
         /\ ~Ran("HandleViewSubmission")
         /\ calls = <<>>
         /\ NoRemoteCall

\* A signed payload of type "unknown_type" was acknowledged.
C19_Witness ==
    /\ IsInteractivity
    /\ CorrectlySigned
    /\ payload.request.form = "ok"
    /\ payload.request.payload.kind = "callback"
    /\ payload.request.payload.type = "unknown_type"
    /\ trace = << "ParseForm", "Unmarshal" >>
    /\ status = StatusOK

\* ------------------------------------------------------------------- C20
\* C20: every request to the slash-command or the interactivity entry
\* point whose signature is missing, older than the five-minute replay
\* window, or not the HMAC of "v0:" + timestamp + ":" + raw body under
\* the signing secret is answered with 401, and no form parsing, routing,
\* handler or remote call happens for it.
C20_UnsignedRejected ==
    ((IsSlashCommand \/ IsInteractivity) /\ ~CorrectlySigned) =>
      /\ status = StatusUnauthorized
      /\ trace = <<>>
      /\ calls = <<>>
      /\ NoRemoteCall

\* A slash command whose signature is hex digits but not the HMAC of the
\* body, with a fresh timestamp, opened the modal and was answered 200.
C20_Witness ==
    /\ IsSlashCommand
    /\ payload.request.signature = "mismatch"
    /\ payload.request.timestamp = "fresh"
    /\ Ran("HandleSlashCommand")
    /\ Len(opened) = 1
    /\ status = StatusOK


\* ------------------------------------------------------------------- C21
\* The last request passed the verifier and its form parsed.
Admitted ==
    /\ NewSecretsVerifier(payload.request) = ""
    /\ payload.request.form = "ok"

\* Processing stopped at the entry point: no handler ran for a payload,
\* UpdateModal was not called and nothing left the process.
StoppedEarly ==
    /\ ~Ran("HandleBlockActions")
    /\ ~Ran("HandleViewSubmission")
    /\ calls = <<>>
    /\ response = "none"
    /\ NoRemoteCall

\* C21: malformed input is answered with 400 and processing stops before
\* any remote call: an interactivity request whose payload field is empty
\* or missing, an interactivity payload that is not valid JSON (the body
\* names the invalid interaction callback), and a slash command whose
\* trigger_id is missing or empty (body "Missing trigger_id").
C21_MalformedInputRefused ==
    /\ (IsInteractivity /\ Admitted
          /\ payload.request.payload.kind \in { "missing", "empty" }) =>
         /\ status = StatusBadRequest
         /\ ~Ran("Unmarshal")
         /\ StoppedEarly
    /\ (IsInteractivity /\ Admitted
          /\ payload.request.payload.kind = "invalid_json") =>
         /\ status = StatusBadRequest
         /\ written = TextBody("Invalid Slack Interaction Callback")
         /\ StoppedEarly
    /\ (IsSlashCommand /\ Admitted
          /\ payload.request.trigger_id \in { Absent, "" }) =>
         /\ status = StatusBadRequest
         /\ written = TextBody("Missing trigger_id")
         /\ StoppedEarly

\* A signed slash command whose form has no trigger_id was refused.
C21_Witness ==
    /\ IsSlashCommand
    /\ CorrectlySigned
    /\ payload.request.form = "ok"
    /\ payload.request.trigger_id = Absent
    /\ Ran("HandleSlashCommand")
    /\ status = StatusBadRequest
    /\ written = TextBody("Missing trigger_id")
    /\ opened = <<>>


\* ------------------------------------------------------------------- C22
\* C22: if the template is not valid JSON, has no view object, or has a
\* blocks field that is not a list, UpdateModal returns its error before
\* building or sending any request: no views.update call is made, nothing
\* is sent in part, and HandleBlockActions answers the interaction with
\* status 500.
C22_TemplateErrorStops ==
    (Called /\ template.shape \in { "bad_json", "no_view", "bad_blocks" }) =>
      /\ sent = <<>>
      /\ response = "none"
      /\ status = StatusInternalServerError
      /\ written = TextBody("Error updating modal")

\* "custom" selected over a template whose blocks field is not a list:
\* nothing was sent and the interaction was answered 500.
C22_Witness ==
    /\ Called
    /\ calls[1].selectedKudoType = "custom"
    /\ template.shape = "bad_blocks"
    /\ sent = <<>>
    /\ status = StatusInternalServerError


\* ------------------------------------------------------------------- C23
\* The last request was an interaction that reached the switch on its
\* type.
ReachedRouter ==
    /\ IsInteractivity
    /\ Ran("Unmarshal")
    /\ payload.request.payload.kind = "callback"

\* C23: every interaction that reaches the router (block_actions,
\* view_submission or another type, whatever its payload holds, a missing
\* state or missing kudo_type, kudo_users or kudo_message entries
\* included) is acknowledged: the handler returns after writing one HTTP
\* status, it never aborts without a response, and it handles the payload
\* once (no remote call is made a second time).
C23_AlwaysAcknowledged ==
    ReachedRouter =>
      /\ status # NoStatus
      /\ response # "panic"
      /\ Len(calls) <= 1
      /\ Len(sent) <= 1
      /\ Len(posted) <= 1

\* A submission whose state has no kudo_type entry reached the handler,
\* which stopped in a panic before writing a status.
C23_Witness ==
    /\ ReachedRouter
    /\ Ran("HandleViewSubmission")
    /\ payload.request.payload.callback.hasState
    /\ ~payload.request.payload.callback.option.hasText
    /\ status = NoStatus
    /\ response = "panic"
    /\ posted = <<>>


\* ==================================================== ParseKudoTypeText
\* A display label is a list of words and single spaces, as the text of
\* an option is; a run of spaces is a run of " " entries.  The labels
\* here are all the lists of up to MaxLabel entries over two words and
\* the space, so they begin with a space, end with one, or have none.
LabelTokens == { ":zap:", "Texto", " " }

Labels == SeqsUpTo(LabelTokens, MaxLabel)

\* strings.SplitN(s, " ", 2): the text before the first space and the
\* text after it, or the whole text when it has no space.
SplitN(str) ==
    LET idx == IndexOfSpace(str, 1) IN
    IF idx = 0 THEN << Concat(str) >>
    ELSE << Concat(SubSeq(str, 1, idx - 1)),
            Concat(SubSeq(str, idx + 1, Len(str))) >>

\* reminder_button.go:406-413  the split the handler's tests compare with.
ReferenceSplit(kudoTypeFullText) ==
    LET parts == SplitN(kudoTypeFullText) IN
    IF Len(parts) = 2
    THEN [ emoji |-> parts[1], text |-> parts[2] ]
    ELSE [ emoji |-> "", text |-> Concat(kudoTypeFullText) ]

\* view_submission.go:129  the label of the selected option is parsed.
ParseLabel ==
    /\ ~labelParts.done
    /\ LET split == ParseKudoTypeText(label) IN
       labelParts' = [ done |-> TRUE, emoji |-> split.emoji,
                       text |-> split.text ]
    /\ UNCHANGED << label, rpc, cursor, requests, pages, allMembers, dms,
                    result, field >>
    /\ UNCHANGED << modalVars, submissionVars, entryVars, concurrentVars >>

InitParse ==
    /\ label \in Labels
    /\ labelParts = NoParts
    /\ ModalIdle
    /\ template = GiveKudosViewTemplate
    /\ SubmissionIdle
    /\ EntryIdle
    /\ ConcurrentIdle
    /\ ReminderIdle
    /\ SessionIdle

NextParse == ParseLabel

SpecParse == InitParse /\ [][NextParse]_vars

\* ------------------------------------------------------------------- C24
HasSpace(str) == \E k \in 1..Len(str) : str[k] = " "

FirstSpace(str) ==
    CHOOSE k \in 1..Len(str) :
      str[k] = " " /\ \A j \in 1..(k - 1) : str[j] # " "

\* C24: ParseKudoTypeText splits the label at its first space: for a
\* label with a space the glyph is the text before the first space and
\* the label text is everything after it, later spaces kept; for a label
\* without a space the glyph is empty and the label text is the whole
\* string.  The result is the reference split of the tests for every
\* label, those that begin with a space included.
C24_SplitAtFirstSpace ==
    labelParts.done =>
      /\ HasSpace(label) =>
           /\ labelParts.emoji = Concat(SubSeq(label, 1, FirstSpace(label) - 1))
           /\ labelParts.text =
                Concat(SubSeq(label, FirstSpace(label) + 1, Len(label)))
      /\ ~HasSpace(label) =>
           /\ labelParts.emoji = ""
           /\ labelParts.text = Concat(label)
      /\ [ emoji |-> labelParts.emoji, text |-> labelParts.text ]
           = ReferenceSplit(label)

\* The label " Texto" was parsed: the reference gives the text "Texto",
\* the function gave " Texto".
C24_Witness ==
    /\ labelParts.done
    /\ label = << " ", "Texto" >>
    /\ ReferenceSplit(label).text = "Texto"
    /\ labelParts.emoji = ""
    /\ labelParts.text = " Texto"


\* ------------------------------------------------------------------- C25
\* The remote calls of the last request, of all four kinds.
RemoteCalls == Len(opened) + Len(sent) + Len(invited) + Len(posted)

\* The last request was a submission the handler went through to the end.
SubmissionPosted ==
    /\ IsInteractivity
    /\ Ran("HandleViewSubmission")
    /\ status = StatusOK
    /\ written = EmptyBody

\* C25 as stated: each handler invocation performs a single remote call
\* (open for a slash command, update for a field change, post for a
\* submission): one view_submission with any number of recipients makes
\* exactly one call to the remote messaging API and no other.
C25_SingleRemoteCall ==
    (IsSlashCommand \/ IsInteractivity) =>
      /\ RemoteCalls <= 1
      /\ SubmissionPosted => RemoteCalls = 1

\* C25 as amended: each handler invocation performs at most one open,
\* update or post call, of the kind of its handler (open for a slash
\* command, update for a field change, post for a submission); one
\* view_submission that the handler goes through with makes exactly one
\* post-message call and, besides it, one invite call per recipient, in
\* submission order, and no other call.
C25_OnePostAndInvites ==
    /\ IsSlashCommand =>
         /\ Len(opened) <= 1
         /\ sent = <<>> /\ invited = <<>> /\ posted = <<>>
    /\ (IsInteractivity /\ ~Ran("HandleViewSubmission")) =>
         /\ Len(sent) <= 1
         /\ opened = <<>> /\ invited = <<>> /\ posted = <<>>
    /\ (IsInteractivity /\ Ran("HandleViewSubmission")) =>
         /\ opened = <<>> /\ sent = <<>>
         /\ IF SubmissionPosted
            THEN LET users == payload.request.payload.callback.selectedUsers
                 IN  /\ Len(posted) = 1
                     /\ invited = [ k \in 1..Len(users) |->
                                      [ channel |-> "SLACK_CHANNEL_ID",
                                        user |-> users[k] ] ]
            ELSE posted = <<>> /\ invited = <<>>

\* A submission with two recipients: two invitations and one post.
C25_Witness ==
    /\ SubmissionPosted
    /\ payload.request.payload.callback.selectedUsers = << "U789012", "U222222" >>
    /\ Len(invited) = 2
    /\ invited[1].user = "U789012"
    /\ invited[2].user = "U222222"
    /\ Len(posted) = 1
    /\ RemoteCalls = 3


\* ============================================================ the reminder
\* functions/reminder/function.go  handleReminder, with
\* services.GetChannelMembers and services.SendReminderDM.  The client is
\* the environment: every members request may return any page, every
\* direct message may fail.
\* ------------------------------------------------------------- the client
\* What GetUserInfo says of a user: an active member, a bot, a deleted
\* user, or an error.
UserInfo ==
    [ u \in { "U111111", "U222222", "UBOT123", "UDEL456", "UERR789" } |->
        CASE u = "UBOT123" -> "bot"
          [] u = "UDEL456" -> "deleted"
          [] u = "UERR789" -> "error"
          [] OTHER -> "active" ]

\* The pages GetUsersInConversation may return: a list of user ids and
\* the next cursor ("" on the last page), or an error.
PageMembers ==
    { <<>>,
      << "U111111", "UBOT123" >>,
      << "U222222", "UDEL456", "U111111" >>,
      << "UERR789", "U222222" >> }

Cursors == { "cursor_page2", "cursor_page3" }

ErrorPage == [ members |-> <<>>, next |-> "", err |-> TRUE ]

MemberPages ==
    { [ members |-> m, next |-> c, err |-> FALSE ] :
        m \in PageMembers, c \in Cursors \cup { "" } }
      \cup { ErrorPage }

\* What PostMessage may return for a direct message.
DMOutcomes == { "ok", "error" }

\* ------------------------------------------------ services.GetChannelMembers
\* part_007:31-40  a listed user is kept when the lookup succeeded and the
\* user is neither a bot nor deleted.
KeepsMember(info) == info = "active"

\* part_007:30-43  the inner loop: the kept users of one page, in order.
RECURSIVE FilterMembers(_)
FilterMembers(members) ==
    IF members = <<>> THEN <<>>
    ELSE IF KeepsMember(UserInfo[Head(members)])
         THEN << Head(members) >> \o FilterMembers(Tail(members))
         ELSE FilterMembers(Tail(members))

\* Faulty variant of NextRequestCursor: the cursor never advanced.
FirstCursorAgain(current, nextCursor) == current

\* part_007:49  the cursor of the following request.
NextRequestCursor(current, nextCursor) == nextCursor

\* Faulty variant of MembersOnError: the members of earlier pages
\* returned with the error.
MembersKeptOnError(collected) == collected

\* part_007:25-27  return nil, err.
MembersOnError(collected) == <<>>

\* Faulty variant of ReminderResult: an error returned when a DM failed.
ReminderResultFromErrors(errorCount) ==
    IF errorCount > 0 THEN "error" ELSE "nil"

\* function.go:60-61  nil whatever the number of failed DMs.
ReminderResult(errorCount) == "nil"

\* The reminder run touches nothing of the request handlers.
OnlyReminder ==
    UNCHANGED << modalVars, submissionVars, entryVars, concurrentVars,
                 parseVars, sessionVars >>

\* part_007:17-50 and function.go:35-39  one turn of the loop of
\* GetChannelMembers: request a page with the current cursor; on an
\* error return no members and the error, which handleReminder returns
\* at once; else filter the page, and stop at an empty next cursor.
GetChannelMembers ==
    /\ OnlyReminder
    /\ rpc = "list"
    /\ Len(requests) < MaxPages
    /\ \E page \in MemberPages :
         /\ requests' = Append(requests, cursor)
         /\ pages' = Append(pages, page)
         /\ IF page.err
            THEN /\ allMembers' = MembersOnError(allMembers)
                 /\ result' = "failed to get channel members"
                 /\ rpc' = "done"
                 /\ UNCHANGED cursor
            ELSE /\ allMembers' = allMembers \o FilterMembers(page.members)
                 /\ UNCHANGED result
                 /\ IF page.next = ""
                    THEN rpc' = "send" /\ UNCHANGED cursor
                    ELSE /\ cursor' = NextRequestCursor(cursor, page.next)
                         /\ UNCHANGED rpc
    /\ UNCHANGED dms

\* function.go:47-56  one turn of the loop over the members: the DM is
\* attempted and its outcome counted.
SendReminderDM ==
    /\ OnlyReminder
    /\ rpc = "send"
    /\ Len(dms) < Len(allMembers)
    /\ \E outcome \in DMOutcomes :
         dms' = Append(dms, [ user |-> allMembers[Len(dms) + 1],
                              outcome |-> outcome ])
    /\ UNCHANGED << rpc, cursor, requests, pages, allMembers, result >>

\* The DMs that failed so far.
ErrorCount == Cardinality({ k \in 1..Len(dms) : dms[k].outcome = "error" })

\* function.go:58-61  the loop is over and handleReminder returns.
ReturnFromReminder ==
    /\ OnlyReminder
    /\ rpc = "send"
    /\ Len(dms) = Len(allMembers)
    /\ result' = ReminderResult(ErrorCount)
    /\ rpc' = "done"
    /\ UNCHANGED << cursor, requests, pages, allMembers, dms >>

\* function.go:31-35  handleReminder was called: the first members
\* request is about to be made, with the empty cursor.
InitReminder ==
    /\ template = GiveKudosViewTemplate
    /\ ModalIdle
    /\ SubmissionIdle
    /\ EntryIdle
    /\ ConcurrentIdle
    /\ ParseIdle
    /\ SessionIdle
    /\ rpc = "list"
    /\ cursor = ""
    /\ requests = <<>>
    /\ pages = <<>>
    /\ allMembers = <<>>
    /\ dms = <<>>
    /\ result = "none"

NextReminder ==
    \/ GetChannelMembers
    \/ SendReminderDM
    \/ ReturnFromReminder

SpecReminder == InitReminder /\ [][NextReminder]_vars


\* ------------------------------------------------------------------- C26
\* No members request of the run failed.
ListingOK == \A k \in 1..Len(pages) : ~pages[k].err

\* C26: handleReminder attempts exactly one direct message per member
\* returned by GetChannelMembers, in the returned order; a failed DM
\* neither stops nor skips the DMs to the remaining members, and
\* handleReminder returns nil however many DMs fail.
C26_OneDMPerMember ==
    /\ Len(dms) <= Len(allMembers)
    /\ \A k \in 1..Len(dms) : dms[k].user = allMembers[k]
    /\ (rpc = "done" /\ ListingOK) =>
         /\ Len(dms) = Len(allMembers)
         /\ result = "nil"

\* Three members; the first DM failed, the next two were still sent, and
\* nil was returned.
C26_Witness ==
    /\ rpc = "done"
    /\ Len(allMembers) = 3
    /\ Len(dms) = 3
    /\ dms[1].outcome = "error"
    /\ dms[2].outcome = "ok"
    /\ dms[3].outcome = "error"
    /\ result = "nil"

\* ------------------------------------------------------------------- C27
\* Every user id listed, in page order.
RECURSIVE Listed(_)
Listed(k) ==
    IF k = 0 THEN <<>> ELSE Listed(k - 1) \o pages[k].members

IsActive(u) == UserInfo[u] = "active"

\* GetChannelMembers has returned its members.
MembersReturned == rpc \in { "send", "done" } /\ ListingOK

\* C27: GetChannelMembers requests pages starting with the empty cursor,
\* passes each returned non-empty next cursor into the following request,
\* and stops at the first page whose next cursor is empty: it has
\* returned exactly when the last page it got has an empty next cursor.
\* Its result is, in page order, every listed user id whose lookup
\* succeeded and who is neither a bot nor deleted, and nothing else.
C27_PagedAndFiltered ==
    /\ Len(pages) = Len(requests)
    /\ requests # <<>> => requests[1] = ""
    /\ \A k \in 2..Len(requests) :
         /\ ~pages[k - 1].err
         /\ pages[k - 1].next # ""
         /\ requests[k] = pages[k - 1].next
    /\ ListingOK =>
         ( MembersReturned <=>
             (pages # <<>> /\ pages[Len(pages)].next = "") )
    /\ MembersReturned =>
         allMembers = SelectSeq(Listed(Len(pages)), IsActive)

\* Three pages requested with the cursors "", cursor_page2 and
\* cursor_page3; a bot, a deleted user and a failed lookup dropped.
C27_Witness ==
    /\ MembersReturned
    /\ requests = << "", "cursor_page2", "cursor_page3" >>
    /\ pages[1].members = << "U111111", "UBOT123" >>
    /\ pages[2].members = << "UERR789", "U222222" >>
    /\ pages[3].members = << "U222222", "UDEL456", "U111111" >>
    /\ allMembers = << "U111111", "U222222", "U222222", "U111111" >>

\* ------------------------------------------------------------------- C28
\* C28: if listing the channel members fails on any page, the first or a
\* later one, GetChannelMembers returns an error and no members, the ids
\* collected from earlier pages dropped, and handleReminder returns that
\* error without sending any direct message.
C28_ListingFailureNoDM ==
    ~ListingOK =>
      /\ rpc = "done"
      /\ result = "failed to get channel members"
      /\ allMembers = <<>>
      /\ dms = <<>>

\* The second page failed after a first page with an active member.
C28_Witness ==
    /\ Len(pages) = 2
    /\ pages[1].members = << "U111111", "UBOT123" >>
    /\ pages[1].next = "cursor_page2"
    /\ pages[2].err
    /\ rpc = "done"
    /\ result = "failed to get channel members"
    /\ allMembers = <<>>
    /\ dms = <<>>


\* ------------------------------------------------------------------- C29
\* The last request was a correctly signed click on the button of the
\* reminder message, with a trigger.
ReminderButtonClicked ==
    /\ IsInteractivity
    /\ CorrectlySigned
    /\ payload.request.form = "ok"
    /\ payload.request.payload.kind = "callback"
    /\ payload.request.payload.type = "block_actions"
    /\ LET callback == payload.request.payload.callback IN
       /\ callback.trigger_id # ""
       /\ \E k \in 1..Len(callback.actions) :
            callback.actions[k].action_id = "open_kudos_modal"

\* C29: a click on the button of the reminder DM (a correctly signed
\* block_actions interaction with action_id "open_kudos_modal" and a
\* non-empty trigger_id, sent to the interactivity entry point) results
\* in exactly one views.open call carrying that trigger_id: it opens the
\* kudos modal.
C29_ButtonOpensModal ==
    ReminderButtonClicked =>
      /\ Len(opened) = 1
      /\ opened[1].trigger_id = payload.request.payload.callback.trigger_id

\* The click went to HandleBlockActions, which found no kudo_type action:
\* it was acknowledged and nothing was opened.
C29_Witness ==
    /\ ReminderButtonClicked
    /\ trace = << "ParseForm", "Unmarshal", "HandleBlockActions" >>
    /\ status = StatusOK
    /\ written = EmptyBody
    /\ opened = <<>>
    /\ calls = <<>>


\* ======================================================== a modal session
\* One user, one open modal, and the selections made in it, in which the
\* user never types into the message field.  field is what the message
\* field shows: the platform puts the initial_value of an update into it
\* and reports it as the field's value in the next payload.
SessionValues ==
    { "resolvedor-de-problemas", "espirito-de-equipe", "slug-desconhecido",
      "custom" }

\* The templates a session may run on: the block lists of the source.
SessionTemplates == { [ shape |-> "ok", blocks |-> b ] : b \in SourceBlockLists }

\* The initial_value of the kudo_message field in an update body.
PrefilledMessage(body) ==
    LET k == CHOOSE k \in 1..Len(body.blocks) :
               IsBlock(body.blocks[k], "kudo_message")
    IN  body.blocks[k].initial_value

\* block_actions.go:14-67  the user selects a category: the platform sends
\* the selection with the field's current value, the handler answers with
\* an update, and an update that succeeds and carries an initial_value
\* for the message field changes what the field shows.
SelectKudoType(selected, ref) ==
    LET callback ==
          [ viewID |-> ref[1], hash |-> ref[2],
            actions |-> << [ action_id |-> "kudo_type", value |-> selected ] >>,
            state |-> [ kind |-> "value", value |-> field ] ]
    IN  /\ HandleBlockActions(callback)
        /\ payload' = [ kind |-> "block_actions", callback |-> callback ]
        /\ field' = IF /\ response' = "ok"
                       /\ PrefilledMessage(sent'[1]) # Absent
                    THEN PrefilledMessage(sent'[1])
                    ELSE field
        /\ UNCHANGED << opened, trace, submissionVars, concurrentVars,
                        parseVars, reminderVars >>

\* The modal was opened: the message field is empty.
InitSession ==
    /\ template \in SessionTemplates
    /\ ModalIdle
    /\ SubmissionIdle
    /\ EntryIdle
    /\ ConcurrentIdle
    /\ ParseIdle
    /\ ReminderIdle
    /\ field = ""

NextSession ==
    \E selected \in SessionValues, ref \in ViewRefs :
      SelectKudoType(selected, ref)

SpecSession == InitSession /\ [][NextSession]_vars

\* ------------------------------------------------------------------- C30
\* The last selection was answered with an update that succeeded.
SelectionShown == IsBlockActions /\ Sent /\ response = "ok"

CatalogSuggestions ==
    { KudoSuggestedMessages[s] : s \in DOMAIN KudoSuggestedMessages }

\* C30: in a session where the user never types in the message field
\* (the platform reporting a pre-filled initial_value as the field's
\* value in the next payload), after every selection of a known
\* predefined category the message field is pre-filled with the suggested
\* message of the category selected last, not of one selected earlier,
\* and after a selection of "custom" it carries no catalog suggestion.
C30_LatestSuggestionShown ==
    SelectionShown =>
      LET selected == calls[1].selectedKudoType IN
      /\ selected \in DOMAIN KudoSuggestedMessages =>
           field = KudoSuggestedMessages[selected]
      /\ selected = "custom" => field \notin CatalogSuggestions

\* "espirito-de-equipe" selected after "resolvedor-de-problemas": the
\* field still shows the suggestion of the first.
C30_Witness ==
    /\ SelectionShown
    /\ calls[1].selectedKudoType = "espirito-de-equipe"
    /\ calls[1].currentMessage = KudoSuggestedMessages["resolvedor-de-problemas"]
    /\ field = KudoSuggestedMessages["resolvedor-de-problemas"]
====
